---- MODULE Spec2Model ----
(***************************************************************************)
(* Verification model of the uniswap-trader repository.                    *)
(*                                                                         *)
(* Part I   PaperWallet / PaperTrader / RiskManager  (paper_trader.py,     *)
(*          risk.py) with the market data provider as the environment.     *)
(* Part II  the tick-driven script ledgers (auto_paper_trader.py,          *)
(*          btc_ab_trader.py).                                             *)
(*                                                                         *)
(* Number representation.  Python floats are modelled by exact arithmetic: *)
(*   Part I : token quantities in 1/100 token, USD in cents, prices in     *)
(*            cents per token, confidence / volatility / fractions in      *)
(*            percent, market cap and volume in thousands of USD.          *)
(*   Part II: reduced rationals <<numerator, denominator>>.                *)
(***************************************************************************)
EXTENDS Integers, Sequences, FiniteSets, TLC

VARIABLES
    \* ---- market data provider (environment of Part I) ----
    price,                  \* token -> current price, cents (0 = feed failure)
    \* ---- PaperWallet ----
    balances,               \* token -> quantity, 1/100 token
    tx_history,             \* sequence of simulated transactions
    \* ---- PaperTrader ----
    positions,              \* token -> position record (partial function)
    trade_history,          \* closed trades
    start_value, highest_value, lowest_value,
    \* ---- RiskManager ----
    current_portfolio_value, daily_start_value, daily_highest_value,
    daily_trades, daily_losses,
    emergency_stop_active, emergency_stop_reason,
    rm_positions, rm_trade_history,
    \* ---- observation of the latest call and its result ----
    last,
    steps,
    \* ---- auto_paper_trader.py: the two persisted dicts ----
    state,                  \* auto_trade_state.json
    learning_data,          \* learning_data.json
    \* ---- btc_ab_trader.py: the persisted dict ----
    ab_state,
    \* ---- number of script cycles run so far ----
    ticks,
    \* ---- the price fetch of the latest script run: did the feed answer ----
    feed,
    \* ---- the latest call of detect_market_regime: its window and result ----
    regime_call,
    \* ---- the current day, and for each script the day of its latest run
    \* that saved its state ----
    calendar,
    \* ---- strategies.py: the strategies' signals for a token and the
    \* consensus StrategyManager made of them, once it has
    consensus,
    \* ---- strategies.py: the prices MeanReversionStrategy.analyze was given
    \* and the signal it returned ----
    mean_reversion,
    \* ---- strategies.py: GridTradingStrategy's configuration, its
    \* grid_levels dict and the signal of its latest analyze ----
    grid,
    \* ---- dashboard.py: the request being handled and the background thread
    dash_request,           \* the request a handler thread is in, if any
    dash_background         \* the snapshot check_positions iterates, if any

traderVars == <<price, balances, tx_history, positions, trade_history,
                start_value, highest_value, lowest_value,
                current_portfolio_value, daily_start_value, daily_highest_value,
                daily_trades, daily_losses,
                emergency_stop_active, emergency_stop_reason,
                rm_positions, rm_trade_history, last, steps>>

scriptVars == <<state, learning_data, ab_state, ticks, feed, regime_call>>

dashVars == <<dash_request, dash_background>>

strategyVars == <<consensus, mean_reversion, grid>>

clockVars == <<calendar>>

vars == <<traderVars, scriptVars, dashVars, strategyVars, clockVars>>

(***************************************************************************)
(* Bounds of the exploration                                               *)
(***************************************************************************)
MaxSteps == 4

StackDepth == 3

MaxTicks == 4

MaxCycles == 3

(***************************************************************************)
(* Generic helpers                                                         *)
(***************************************************************************)
Min(a, b) == IF a < b THEN a ELSE b

Max(a, b) == IF a > b THEN a ELSE b

NoValue == -1

(***************************************************************************)
(* Configuration (config.py RISK_CONFIG)                                   *)
(***************************************************************************)
\* max_position_size_percent = 0.10, as percent of the portfolio value
MaxPositionPercent == 10

\* daily_loss_limit_percent = 10.0
DailyLossLimitPercent == 10

\* max_open_positions = 5
MaxOpenPositions == 5

\* stop_loss_percent = 5.0
StopLossPercent == 5

\* take_profit_percent = 15.0
TakeProfitPercent == 15

\* risk.py: max_stop_pct = 0.20
MaxStopPercent == 20

\* risk.py: min_size = 100 USD, in cents
MinPositionSize == 10000

\* PaperWallet.total_usd: "Assume ETH = $3000", in cents
AssumedEthPrice == 300000

\* PaperWallet.transfer: gas_cost = 0.01 ETH, in 1/100 ETH
GasCost == 1

(***************************************************************************)
(* Tokens and the market data the environment serves                       *)
(***************************************************************************)
WalletTokens == {"ETH", "WETH", "USDC", "USDT", "DAI"}

Tokens == WalletTokens \cup {"MATIC"}

TradeTokens == {"ETH", "MATIC"}

\* prices the feed can report for MATIC (cents); 0 is what
\* MarketDataProvider._fetch_coingecko_price returns on a failed request
MaticPrices == {0, 40, 50, 55}

Confidences == {50, 80, 100}

(***************************************************************************)
(* MarketDataProvider (market_data.py)                                     *)
(***************************************************************************)
\* get_current_price: the cached or freshly fetched price, a float
GetCurrentPrice(token) == price[token]

\* get_volatility: annualised deviation of the recent returns, in percent;
\* 0 stands for None (fewer than two historical prices)
GetVolatility(token) ==
    IF token = "MATIC" THEN 250
    ELSE IF token \in {"ETH", "WETH"} THEN 60 ELSE 0

\* get_volume / get_market_cap: "price = self.get_current_price(token)" is a
\* float; "if price: return price.volume_24h" raises AttributeError for every
\* non-zero price and the function returns 0.0 for a zero price
GetVolume(token) ==
    IF GetCurrentPrice(token) # 0
    THEN [raised |-> TRUE, value |-> NoValue]
    ELSE [raised |-> FALSE, value |-> 0]

GetMarketCap(token) ==
    IF GetCurrentPrice(token) # 0
    THEN [raised |-> TRUE, value |-> NoValue]
    ELSE [raised |-> FALSE, value |-> 0]

(***************************************************************************)
(* RiskManager (risk.py)                                                   *)
(***************************************************************************)
Raised == [raised |-> TRUE, value |-> NoValue, risk_score |-> NoValue,
           risk_level |-> "none", volatility |-> NoValue]

\* assess_token_risk lines 311-338: additive score from volatility (percent),
\* market cap and volume (thousands of USD)
RiskScore(volatility, market_cap, volume) ==
    (IF volatility # 0
     THEN IF volatility > 200 THEN 40
          ELSE IF volatility > 100 THEN 30
          ELSE IF volatility > 50 THEN 20 ELSE 10
     ELSE 0)
    + (IF market_cap < 1000 THEN 30 ELSE IF market_cap < 10000 THEN 20 ELSE 0)
    + (IF volume < 10 THEN 20 ELSE IF volume < 100 THEN 10 ELSE 0)

\* assess_token_risk lines 348-354
RiskLevelOf(score) ==
    IF score >= 60 THEN "high" ELSE IF score >= 30 THEN "medium" ELSE "low"

RECURSIVE AssessTokenRisk(_, _)
RECURSIVE CalculatePositionSize(_, _, _, _)

\* assess_token_risk(token).  depth is the number of stack frames left: the
\* RiskMetrics constructor calls calculate_position_size(token, 0.5), which
\* calls assess_token_risk again, and neither has a base case, so the call
\* ends when the interpreter's stack is exhausted (RecursionError).
AssessTokenRisk(token, depth) ==
    IF depth = 0 THEN Raised
    ELSE
      LET volatility == GetVolatility(token)
          volume     == GetVolume(token)
          market_cap == GetMarketCap(token)
      IN IF volume.raised \/ market_cap.raised THEN Raised
         ELSE
           LET score == RiskScore(volatility, market_cap.value, volume.value)
               mps   == CalculatePositionSize(token, 50, current_portfolio_value,
                                              depth - 1)
           IN IF mps.raised THEN Raised
              ELSE [raised |-> FALSE, value |-> mps.value,
                    risk_score |-> score,
                    risk_level |-> RiskLevelOf(score),
                    volatility |-> IF volatility # 0 THEN volatility ELSE 50]

\* calculate_position_size(token, confidence, portfolio_value): cents
CalculatePositionSize(token, confidence, portfolio_value, depth) ==
    IF depth = 0 THEN Raised
    ELSE
      LET risk == AssessTokenRisk(token, depth - 1)
      IN IF risk.raised THEN Raised
         ELSE
           LET base_size == (portfolio_value * MaxPositionPercent) \div 100
               risk_adjustment ==
                   IF risk.risk_level = "high" THEN 50
                   ELSE IF risk.risk_level = "medium" THEN 75 ELSE 100
               volatility_adjustment ==
                   IF risk.volatility > 100 THEN 50
                   ELSE IF risk.volatility > 50 THEN 75 ELSE 100
               position_size ==
                   (((base_size * confidence) \div 100) * risk_adjustment
                        * volatility_adjustment) \div 10000
           IN [Raised EXCEPT !.raised = FALSE,
                             !.value = Max(position_size, MinPositionSize)]

\* the stop distance of calculate_stop_loss lines 241-257, in 1/10000 of the
\* entry price: base percentage, widened by volatility above 0.5, capped at
\* 20%, times 1 + (1 - confidence) * 0.5
StopDistance(volatility, confidence) ==
    LET base_stop_pct == StopLossPercent * 100
        widened == IF volatility # 0 /\ volatility > 50
                   THEN (base_stop_pct * volatility * 2) \div 100
                   ELSE base_stop_pct
        capped == Min(widened, MaxStopPercent * 100)
    IN (capped * (100 + (100 - confidence) \div 2)) \div 100

\* calculate_stop_loss(token, entry_price, "long", confidence)
CalculateStopLoss(token, entry_price, confidence, depth) ==
    LET risk == AssessTokenRisk(token, depth)
    IN IF risk.raised THEN Raised
       ELSE [Raised EXCEPT !.raised = FALSE,
              !.value = entry_price
                        - (entry_price * StopDistance(risk.volatility, confidence))
                          \div 10000]

\* calculate_take_profit(token, entry_price, "long", confidence): base
\* percentage times 1 + confidence * 0.5; it does not assess the token
CalculateTakeProfit(token, entry_price, confidence) ==
    LET distance == (TakeProfitPercent * 100 * (100 + confidence \div 2)) \div 100
    IN entry_price + (entry_price * distance) \div 10000

\* can_open_position without its first check (the latch is ignored)
CanOpenPosition_NoLatch(token, position_size, confidence) ==
    IF position_size * 100 > current_portfolio_value * MaxPositionPercent
    THEN [outcome |-> "refused", reason |-> "position_size"]
    ELSE [outcome |-> "raised", reason |-> "exception"]

\* can_open_position(token, position_size, confidence): the five checks in
\* source order; the result is (allowed, reason) or the exception raised by
\* the token assessment
CanOpenPosition(token, position_size, confidence) ==
    IF emergency_stop_active
    THEN [outcome |-> "refused", reason |-> "emergency_stop"]
    ELSE IF Cardinality(DOMAIN rm_positions) >= MaxOpenPositions
    THEN [outcome |-> "refused", reason |-> "max_positions"]
    ELSE IF daily_start_value > 0
            /\ (current_portfolio_value - daily_start_value) * 100
                   < - DailyLossLimitPercent * daily_start_value
    THEN [outcome |-> "refused", reason |-> "daily_loss_limit"]
    ELSE IF position_size * 100 > current_portfolio_value * MaxPositionPercent
    THEN [outcome |-> "refused", reason |-> "position_size"]
    ELSE LET risk_metrics == AssessTokenRisk(token, StackDepth)
         IN IF risk_metrics.raised
            THEN [outcome |-> "raised", reason |-> "exception"]
            ELSE IF risk_metrics.risk_level = "high" /\ confidence < 80
            THEN [outcome |-> "refused", reason |-> "high_risk"]
            ELSE [outcome |-> "allowed", reason |-> "allowed"]

(***************************************************************************)
(* PaperWallet (paper_trader.py)                                           *)
(***************************************************************************)
EmptyMap == [t \in {} |-> NoValue]

MapPut(f, k, v) == [t \in (DOMAIN f) \cup {k} |-> IF t = k THEN v ELSE f[t]]

MapDel(f, k) == [t \in (DOMAIN f) \ {k} |-> f[t]]

\* PaperWallet.__init__: the five listed tokens; a token missing from the
\* dict reads as 0.0 through get_balance
NewWallet(initial_eth, initial_usdc) ==
    [t \in Tokens |-> IF t = "ETH" THEN initial_eth
                      ELSE IF t = "USDC" THEN initial_usdc ELSE 0]

\* PaperWallet.total_usd, cents: ETH and WETH at the assumed 3000 USD, the
\* three stablecoins at par, and nothing else
TotalUsd(bal) ==
    (bal["ETH"] * AssumedEthPrice) \div 100
    + (bal["WETH"] * AssumedEthPrice) \div 100
    + bal["USDC"] + bal["USDT"] + bal["DAI"]

\* PaperWallet.transfer(token_in, token_out, amount_in, simulated_price) with
\* simulated_price = num / den.  ValueError when the balance is short.
Transfer(bal, txs, token_in, token_out, amount_in, num, den) ==
    IF amount_in > bal[token_in]
    THEN [raised |-> TRUE, balances |-> bal, tx_history |-> txs, amount_out |-> 0]
    ELSE
      LET amount_out == (amount_in * num) \div den
          b1 == [bal EXCEPT ![token_in] = @ - amount_in]
          b2 == [b1 EXCEPT ![token_out] = @ + amount_out]
          b3 == IF token_in # "ETH" /\ token_out # "ETH"
                THEN [b2 EXCEPT !["ETH"] = @ - GasCost] ELSE b2
          tx == [token_in |-> token_in, token_out |-> token_out,
                 amount_in |-> amount_in, amount_out |-> amount_out]
      IN [raised |-> FALSE, balances |-> b3, tx_history |-> Append(txs, tx),
          amount_out |-> amount_out]

(***************************************************************************)
(* PaperTrader (paper_trader.py)                                           *)
(***************************************************************************)
\* the observable record of a call: what was called and what came back
Call(op, token, amount, conf, outcome, reason) ==
    [op |-> op, token |-> token, amount |-> amount, conf |-> conf,
     outcome |-> outcome, reason |-> reason, closed |-> {}]

\* PaperTrader.portfolio_value
PortfolioValue == TotalUsd(balances)

\* the ledger part of the state, as one value
Ledger == [balances |-> balances, tx_history |-> tx_history,
           positions |-> positions, trade_history |-> trade_history]

\* execute_sell(token, amount_percent) on a ledger value; percent is
\* amount_percent * 100.  Returns the new ledger and the outcome.
SellOn(L, token, percent) ==
    IF token \notin DOMAIN L.positions
    THEN [ledger |-> L, outcome |-> "failed", reason |-> "no_position"]
    ELSE
      LET position == L.positions[token]
          sell_amount == (position.token_amount * percent) \div 100
          sell_percent == (position.size_usd * percent) \div 100
          current_price == GetCurrentPrice(token)
      IN IF current_price = 0
         THEN \* 1 / current_price: ZeroDivisionError, caught
              [ledger |-> L, outcome |-> "failed", reason |-> "exception"]
         ELSE
           LET t == Transfer(L.balances, L.tx_history, token, "USDC",
                             sell_amount, current_price, 100)
           IN IF t.raised
              THEN [ledger |-> L, outcome |-> "failed", reason |-> "exception"]
              ELSE
                LET pos2 == [position EXCEPT
                                !.token_amount = @ - sell_amount,
                                !.size_usd = @ - sell_percent]
                    closes == pos2.token_amount * 100 < 1 \/ percent >= 100
                    entry_value == IF percent < 100
                                   THEN (pos2.size_usd * 100) \div (100 - percent)
                                   ELSE pos2.size_usd
                    exit_value == sell_percent
                    pnl == exit_value - entry_value
                    pnl_percent == IF entry_value > 0
                                   THEN (pnl * 100) \div entry_value ELSE 0
                    trade == [position |-> [pos2 EXCEPT !.pnl = pnl,
                                                 !.pnl_percent = pnl_percent],
                              exit_tx |-> t.tx_history[Len(t.tx_history)],
                              exit_price |-> current_price,
                              pnl |-> pnl, pnl_percent |-> pnl_percent,
                              close_reason |-> "manual"]
                IN [ledger |->
                      [balances |-> t.balances, tx_history |-> t.tx_history,
                       positions |-> IF closes THEN MapDel(L.positions, token)
                                     ELSE MapPut(L.positions, token, pos2),
                       trade_history |-> IF closes
                                         THEN Append(L.trade_history, trade)
                                         ELSE L.trade_history],
                    outcome |-> "ok", reason |-> "sell"]

\* execute_buy(token, amount_usd, confidence) on the current state.  The risk
\* check and calculate_position_size run outside the try block, the swap and
\* the stop / target computation inside it.
BuyOn(L, token, amount_usd, confidence) ==
    LET check == CanOpenPosition(token, amount_usd, confidence)
        current_price == GetCurrentPrice(token)
    IN IF check.outcome = "raised"
       THEN [ledger |-> L, outcome |-> "raised", reason |-> "exception"]
       ELSE IF check.outcome = "refused"
       THEN [ledger |-> L, outcome |-> "refused", reason |-> check.reason]
       ELSE IF current_price <= 0
       THEN [ledger |-> L, outcome |-> "failed", reason |-> "invalid_price"]
       ELSE IF CalculatePositionSize(token, confidence, current_portfolio_value,
                                     StackDepth).raised
       THEN [ledger |-> L, outcome |-> "raised", reason |-> "exception"]
       ELSE
         LET t == Transfer(L.balances, L.tx_history, "USDC", token,
                           amount_usd, 100, current_price)
             stop == CalculateStopLoss(token, current_price, confidence, StackDepth)
         IN IF t.raised
            THEN [ledger |-> L, outcome |-> "failed", reason |-> "exception"]
            ELSE IF stop.raised
            THEN \* raised after the swap, caught by "except Exception"
                 [ledger |-> [L EXCEPT !.balances = t.balances,
                                       !.tx_history = t.tx_history],
                  outcome |-> "failed", reason |-> "exception"]
            ELSE
              LET position ==
                    [token |-> token, type |-> "long", size_usd |-> amount_usd,
                     token_amount |-> t.amount_out,
                     entry_price |-> current_price,
                     stop_loss |-> stop.value,
                     take_profit |-> CalculateTakeProfit(token, current_price,
                                                         confidence),
                     confidence |-> confidence,
                     current_price |-> NoValue, current_value |-> NoValue,
                     pnl |-> NoValue, pnl_percent |-> NoValue]
              IN [ledger |-> [L EXCEPT !.balances = t.balances,
                                       !.tx_history = t.tx_history,
                                       !.positions = MapPut(@, token, position)],
                  outcome |-> "ok", reason |-> "buy"]

RECURSIVE CheckFold(_, _, _)

\* the loop of check_positions over list(self.positions.items())
CheckFold(L, todo, closed) ==
    IF todo = {} THEN [ledger |-> L, closed |-> closed]
    ELSE
      LET token == CHOOSE t \in todo : TRUE
          rest == todo \ {token}
          current_price == GetCurrentPrice(token)
      IN IF current_price = 0 THEN CheckFold(L, rest, closed)
         ELSE
           LET position == L.positions[token]
               current_value == (position.token_amount * current_price) \div 100
               entry_value == position.size_usd
               pnl == current_value - entry_value
               marked == [position EXCEPT
                            !.current_price = current_price,
                            !.current_value = current_value,
                            !.pnl = pnl,
                            !.pnl_percent = IF entry_value > 0
                                            THEN (pnl * 100) \div entry_value ELSE 0]
               L1 == [L EXCEPT !.positions = MapPut(@, token, marked)]
           IN IF position.stop_loss # 0 /\ position.type = "long"
                 /\ current_price <= position.stop_loss
              THEN CheckFold(SellOn(L1, token, 100).ledger, rest,
                             closed \cup {[token |-> token, reason |-> "stop_loss",
                                           exit_price |-> current_price]})
              ELSE IF position.take_profit # 0 /\ position.type = "long"
                      /\ current_price >= position.take_profit
              THEN CheckFold(SellOn(L1, token, 100).ledger, rest,
                             closed \cup {[token |-> token, reason |-> "take_profit",
                                           exit_price |-> current_price]})
              ELSE CheckFold(L1, rest, closed)

SetLedger(L) ==
    /\ balances' = L.balances
    /\ tx_history' = L.tx_history
    /\ positions' = L.positions
    /\ trade_history' = L.trade_history

riskVars == <<current_portfolio_value, daily_start_value, daily_highest_value,
              daily_trades, daily_losses, emergency_stop_active,
              emergency_stop_reason, rm_positions, rm_trade_history>>

trackVars == <<start_value, highest_value, lowest_value>>

ledgerVars == <<balances, tx_history, positions, trade_history>>

Step ==
    /\ steps < MaxSteps
    /\ steps' = steps + 1
    /\ UNCHANGED <<scriptVars, dashVars, strategyVars, clockVars>>

\* PaperTrader.execute_buy
ExecuteBuy(token, amount_usd, confidence) ==
    LET r == BuyOn(Ledger, token, amount_usd, confidence)
        current_value == TotalUsd(r.ledger.balances)
    IN /\ Step
       /\ SetLedger(r.ledger)
       /\ IF r.outcome = "ok"
          THEN /\ highest_value' = Max(highest_value, current_value)
               /\ lowest_value' = Min(lowest_value, current_value)
          ELSE UNCHANGED <<highest_value, lowest_value>>
       /\ last' = Call("execute_buy", token, amount_usd, confidence,
                       r.outcome, r.reason)
       /\ UNCHANGED <<price, start_value, riskVars>>

\* PaperTrader.execute_sell
ExecuteSell(token, percent) ==
    LET r == SellOn(Ledger, token, percent)
    IN /\ Step
       /\ SetLedger(r.ledger)
       /\ last' = Call("execute_sell", token, percent, NoValue, r.outcome, r.reason)
       /\ UNCHANGED <<price, trackVars, riskVars>>

\* PaperTrader.execute_swap(token_in, token_out, amount_in): the swap runs
\* at simulated_price = price_out
ExecuteSwap(token_in, token_out, amount_in) ==
    LET price_out == GetCurrentPrice(token_out)
        t == Transfer(balances, tx_history, token_in, token_out, amount_in,
                      price_out, 100)
    IN /\ Step
       /\ IF price_out <= 0
          THEN /\ UNCHANGED ledgerVars
               /\ last' = Call("execute_swap", token_out, amount_in, NoValue,
                               "failed", "invalid_price")
          ELSE IF t.raised
          THEN /\ UNCHANGED ledgerVars
               /\ last' = Call("execute_swap", token_out, amount_in, NoValue,
                               "failed", "exception")
          ELSE /\ balances' = t.balances
               /\ tx_history' = t.tx_history
               /\ UNCHANGED <<positions, trade_history>>
               /\ last' = Call("execute_swap", token_out, amount_in, NoValue,
                               "ok", "swap")
       /\ UNCHANGED <<price, trackVars, riskVars>>

\* PaperWallet.wrap_eth(amount), called on trader.wallet; ValueError when short
WrapEth(amount) ==
    /\ Step
    /\ IF amount > balances["ETH"]
       THEN /\ UNCHANGED ledgerVars
            /\ last' = Call("wrap_eth", "ETH", amount, NoValue, "raised", "insufficient")
       ELSE /\ balances' = [balances EXCEPT !["ETH"] = @ - amount,
                                            !["WETH"] = @ + amount]
            /\ UNCHANGED <<tx_history, positions, trade_history>>
            /\ last' = Call("wrap_eth", "ETH", amount, NoValue, "ok", "wrap")
    /\ UNCHANGED <<price, trackVars, riskVars>>

\* PaperWallet.unwrap_weth(amount), called on trader.wallet
UnwrapWeth(amount) ==
    /\ Step
    /\ IF amount > balances["WETH"]
       THEN /\ UNCHANGED ledgerVars
            /\ last' = Call("unwrap_weth", "WETH", amount, NoValue, "raised", "insufficient")
       ELSE /\ balances' = [balances EXCEPT !["WETH"] = @ - amount,
                                            !["ETH"] = @ + amount]
            /\ UNCHANGED <<tx_history, positions, trade_history>>
            /\ last' = Call("unwrap_weth", "WETH", amount, NoValue, "ok", "unwrap")
    /\ UNCHANGED <<price, trackVars, riskVars>>

\* PaperTrader.check_positions
CheckPositions ==
    LET r == CheckFold(Ledger, DOMAIN positions, {})
    IN /\ Step
       /\ SetLedger(r.ledger)
       /\ last' = [Call("check_positions", "all", NoValue, NoValue, "ok", "check")
                     EXCEPT !.closed = r.closed]
       /\ UNCHANGED <<price, trackVars, riskVars>>

\* PaperTrader.reset(initial_eth, initial_usdc)
Reset_ClearsLatch(initial_eth, initial_usdc) ==
    /\ Step
    /\ balances' = NewWallet(initial_eth, initial_usdc)
    /\ tx_history' = <<>>
    /\ positions' = EmptyMap
    /\ trade_history' = <<>>
    /\ start_value' = TotalUsd(balances')
    /\ highest_value' = start_value'
    /\ lowest_value' = start_value'
    /\ last' = Call("reset", "all", initial_usdc, NoValue, "ok", "reset")
    /\ emergency_stop_active' = FALSE
    /\ emergency_stop_reason' = "none"
    /\ UNCHANGED <<price, current_portfolio_value, daily_start_value,
                   daily_highest_value, daily_trades, daily_losses,
                   rm_positions, rm_trade_history>>

Reset(initial_eth, initial_usdc) ==
    /\ Step
    /\ balances' = NewWallet(initial_eth, initial_usdc)
    /\ tx_history' = <<>>
    /\ positions' = EmptyMap
    /\ trade_history' = <<>>
    /\ start_value' = TotalUsd(balances')
    /\ highest_value' = start_value'
    /\ lowest_value' = start_value'
    /\ last' = Call("reset", "all", initial_usdc, NoValue, "ok", "reset")
    /\ UNCHANGED <<price, riskVars>>

(***************************************************************************)
(* RiskManager operations (risk.py)                                        *)
(***************************************************************************)
\* RiskManager.can_open_position called directly
CanOpenPositionCall(token, position_size, confidence) ==
    LET r == CanOpenPosition(token, position_size, confidence)
    IN /\ Step
       /\ last' = Call("can_open_position", token, position_size, confidence,
                       r.outcome, r.reason)
       /\ UNCHANGED <<price, ledgerVars, trackVars, riskVars>>

\* RiskManager.assess_token_risk called directly
AssessTokenRiskCall(token) ==
    LET r == AssessTokenRisk(token, StackDepth)
    IN /\ Step
       /\ last' = Call("assess_token_risk", token, NoValue, NoValue,
                       IF r.raised THEN "raised" ELSE "ok", r.risk_level)
       /\ UNCHANGED <<price, ledgerVars, trackVars, riskVars>>

\* RiskManager.calculate_position_size called directly
CalculatePositionSizeCall(token, confidence) ==
    LET r == CalculatePositionSize(token, confidence, current_portfolio_value,
                                   StackDepth)
    IN /\ Step
       /\ last' = [Call("calculate_position_size", token, NoValue, confidence,
                        IF r.raised THEN "raised" ELSE "ok", "size")
                     EXCEPT !.closed = {r.value}]
       /\ UNCHANGED <<price, ledgerVars, trackVars, riskVars>>

\* RiskManager.calculate_stop_loss / calculate_take_profit called directly
CalculateStopLossCall(token, entry_price, confidence) ==
    LET r == CalculateStopLoss(token, entry_price, confidence, StackDepth)
    IN /\ Step
       /\ last' = [Call("calculate_stop_loss", token, entry_price, confidence,
                        IF r.raised THEN "raised" ELSE "ok", "stop")
                     EXCEPT !.closed = {r.value}]
       /\ UNCHANGED <<price, ledgerVars, trackVars, riskVars>>

CalculateTakeProfitCall(token, entry_price, confidence) ==
    /\ Step
    /\ last' = [Call("calculate_take_profit", token, entry_price, confidence,
                     "ok", "target")
                  EXCEPT !.closed = {CalculateTakeProfit(token, entry_price,
                                                         confidence)}]
    /\ UNCHANGED <<price, ledgerVars, trackVars, riskVars>>

\* RiskManager.set_portfolio_value
SetPortfolioValue(value) ==
    /\ Step
    /\ current_portfolio_value' = value
    /\ daily_highest_value' = Max(daily_highest_value, value)
    /\ last' = Call("set_portfolio_value", "all", value, NoValue, "ok", "set")
    /\ UNCHANGED <<price, ledgerVars, trackVars, daily_start_value, daily_trades,
                   daily_losses, emergency_stop_active, emergency_stop_reason,
                   rm_positions, rm_trade_history>>

\* RiskManager.reset_daily_stats
ResetDailyStats ==
    /\ Step
    /\ daily_start_value' = current_portfolio_value
    /\ daily_highest_value' = current_portfolio_value
    /\ daily_trades' = 0
    /\ daily_losses' = 0
    /\ last' = Call("reset_daily_stats", "all", NoValue, NoValue, "ok", "reset")
    /\ UNCHANGED <<price, ledgerVars, trackVars, current_portfolio_value,
                   emergency_stop_active, emergency_stop_reason,
                   rm_positions, rm_trade_history>>

\* RiskManager.activate_emergency_stop(reason)
ActivateEmergencyStop(reason) ==
    /\ Step
    /\ emergency_stop_active' = TRUE
    /\ emergency_stop_reason' = reason
    /\ last' = Call("activate_emergency_stop", "all", NoValue, NoValue, "ok", reason)
    /\ UNCHANGED <<price, ledgerVars, trackVars, current_portfolio_value,
                   daily_start_value, daily_highest_value, daily_trades,
                   daily_losses, rm_positions, rm_trade_history>>

\* RiskManager.deactivate_emergency_stop
DeactivateEmergencyStop ==
    /\ Step
    /\ emergency_stop_active' = FALSE
    /\ emergency_stop_reason' = "none"
    /\ last' = Call("deactivate_emergency_stop", "all", NoValue, NoValue, "ok",
                    "deactivate")
    /\ UNCHANGED <<price, ledgerVars, trackVars, current_portfolio_value,
                   daily_start_value, daily_highest_value, daily_trades,
                   daily_losses, rm_positions, rm_trade_history>>

\* RiskManager.open_position(token, "long", size, entry_price, confidence):
\* the stops are computed before the position is stored
RmOpenPosition(token, size, entry_price, confidence) ==
    LET stop == CalculateStopLoss(token, entry_price, confidence, StackDepth)
        position == [token |-> token, type |-> "long", size |-> size,
                     entry_price |-> entry_price, current_price |-> entry_price,
                     stop_loss |-> stop.value,
                     take_profit |-> CalculateTakeProfit(token, entry_price,
                                                         confidence),
                     confidence |-> confidence, pnl |-> 0, pnl_percent |-> 0]
    IN /\ Step
       /\ IF stop.raised
          THEN /\ UNCHANGED rm_positions
               /\ last' = Call("open_position", token, size, confidence,
                               "raised", "exception")
          ELSE /\ rm_positions' = MapPut(rm_positions, token, position)
               /\ last' = Call("open_position", token, size, confidence,
                               "ok", "open")
       /\ UNCHANGED <<price, ledgerVars, trackVars, current_portfolio_value,
                      daily_start_value, daily_highest_value, daily_trades,
                      daily_losses, emergency_stop_active, emergency_stop_reason,
                      rm_trade_history>>

\* RiskManager.close_position(token, exit_price, reason) on a risk-manager
\* value R = [positions, trade_history, daily_trades, daily_losses]
RmCloseOn(R, token, exit_price, reason) ==
    IF token \notin DOMAIN R.positions THEN R
    ELSE
      LET position == R.positions[token]
          pnl == ((exit_price - position.entry_price) * position.size)
                     \div position.entry_price
          closed == [position EXCEPT !.pnl = pnl,
                                     !.pnl_percent = (pnl * 100) \div position.size,
                                     !.current_price = exit_price]
      IN [positions |-> MapDel(R.positions, token),
          trade_history |-> Append(R.trade_history,
                                   [position |-> closed, exit_price |-> exit_price,
                                    close_reason |-> reason]),
          daily_trades |-> R.daily_trades + 1,
          daily_losses |-> IF pnl < 0 THEN R.daily_losses + 1 ELSE R.daily_losses]

RECURSIVE RmExitFold(_, _, _)

\* the loop of check_position_exits(current_prices)
RmExitFold(R, todo, closed) ==
    IF todo = {} THEN [rm |-> R, closed |-> closed]
    ELSE
      LET token == CHOOSE t \in todo : TRUE
          rest == todo \ {token}
          current_price == price[token]
          position == R.positions[token]
      IN IF current_price = 0 THEN RmExitFold(R, rest, closed)
         ELSE IF position.stop_loss # 0 /\ current_price <= position.stop_loss
         THEN RmExitFold(RmCloseOn(R, token, current_price, "stop_loss"), rest,
                         closed \cup {[token |-> token, reason |-> "stop_loss",
                                       exit_price |-> current_price]})
         ELSE IF position.take_profit # 0 /\ current_price >= position.take_profit
         THEN RmExitFold(RmCloseOn(R, token, current_price, "take_profit"), rest,
                         closed \cup {[token |-> token, reason |-> "take_profit",
                                       exit_price |-> current_price]})
         ELSE RmExitFold([R EXCEPT !.positions =
                             MapPut(@, token,
                                    [position EXCEPT !.current_price = current_price])],
                         rest, closed)

\* RiskManager.check_position_exits with the current market prices
RmCheckPositionExits ==
    LET r == RmExitFold([positions |-> rm_positions,
                         trade_history |-> rm_trade_history,
                         daily_trades |-> daily_trades,
                         daily_losses |-> daily_losses], DOMAIN rm_positions, {})
    IN /\ Step
       /\ rm_positions' = r.rm.positions
       /\ rm_trade_history' = r.rm.trade_history
       /\ daily_trades' = r.rm.daily_trades
       /\ daily_losses' = r.rm.daily_losses
       /\ last' = [Call("check_position_exits", "all", NoValue, NoValue, "ok",
                        "check") EXCEPT !.closed = r.closed]
       /\ UNCHANGED <<price, ledgerVars, trackVars, current_portfolio_value,
                      daily_start_value, daily_highest_value,
                      emergency_stop_active, emergency_stop_reason>>

(***************************************************************************)
(* Environment: the price feed moves                                       *)
(***************************************************************************)
MarketUpdate(p) ==
    /\ Step
    /\ p # price["MATIC"]
    /\ price' = [price EXCEPT !["MATIC"] = p]
    /\ last' = Call("market_update", "MATIC", p, NoValue, "ok", "price")
    /\ UNCHANGED <<ledgerVars, trackVars, riskVars>>

(***************************************************************************)
(* Inputs                                                                  *)
(***************************************************************************)
\* USD amounts of a buy, cents: 2.5%, 8.75% and 20% of the initial 40,000
BuyAmounts == {100000, 350000, 800000}

SellPercents == {50, 100}

\* <<token_in, token_out, amount_in>> of execute_swap, 1/100 token
SwapCases == {<<"USDC", "MATIC", 500000>>, <<"MATIC", "USDC", 100000>>,
              <<"ETH", "USDC", 100>>}

PortfolioValues == {3000000, 5000000}

StopReasons == {"manual"}

EntryPrices == {50, 10000}

(***************************************************************************)
(* Initial state: PaperTrader(market_data) with its default balances       *)
(***************************************************************************)
InitialEth == 1000

InitialUsdc == 1000000

InitTrader ==
    /\ price = [t \in Tokens |->
                  IF t \in {"ETH", "WETH"} THEN 300000
                  ELSE IF t = "MATIC" THEN 50 ELSE 100]
    /\ balances = NewWallet(InitialEth, InitialUsdc)
    /\ tx_history = <<>>
    /\ positions = EmptyMap
    /\ trade_history = <<>>
    /\ start_value = TotalUsd(NewWallet(InitialEth, InitialUsdc))
    /\ highest_value = start_value
    /\ lowest_value = start_value
    /\ current_portfolio_value = TotalUsd(NewWallet(InitialEth, InitialUsdc))
    /\ daily_start_value = current_portfolio_value
    /\ daily_highest_value = current_portfolio_value
    /\ daily_trades = 0
    /\ daily_losses = 0
    /\ emergency_stop_active = FALSE
    /\ emergency_stop_reason = "none"
    /\ rm_positions = EmptyMap
    /\ rm_trade_history = <<>>
    /\ last = Call("init", "all", NoValue, NoValue, "ok", "init")
    /\ steps = 0

\* the starting balances reset is called with: the defaults, and 5 ETH with
\* 5,000 USDC
ResetArgs == {<<InitialEth, InitialUsdc>>, <<500, 500000>>}

NextTrader ==
    \/ WrapEth(InitialEth)
    \/ UnwrapWeth(InitialEth)
    \/ \E t \in TradeTokens : AssessTokenRiskCall(t)
    \/ \E t \in TradeTokens, c \in Confidences : CalculatePositionSizeCall(t, c)
    \/ \E t \in TradeTokens, a \in BuyAmounts, c \in Confidences : ExecuteBuy(t, a, c)
    \/ \E t \in TradeTokens, f \in SellPercents : ExecuteSell(t, f)
    \/ \E s \in SwapCases : ExecuteSwap(s[1], s[2], s[3])
    \/ CheckPositions
    \/ \E w \in ResetArgs : Reset(w[1], w[2])
    \/ \E t \in TradeTokens, a \in BuyAmounts, c \in Confidences :
           CanOpenPositionCall(t, a, c)
    \/ \E t \in TradeTokens, e \in EntryPrices, c \in Confidences :
           CalculateStopLossCall(t, e, c)
    \/ \E t \in TradeTokens, e \in EntryPrices, c \in Confidences :
           CalculateTakeProfitCall(t, e, c)
    \/ \E v \in PortfolioValues : SetPortfolioValue(v)
    \/ ResetDailyStats
    \/ \E r \in StopReasons : ActivateEmergencyStop(r)
    \/ DeactivateEmergencyStop
    \/ \E t \in TradeTokens, a \in BuyAmounts, e \in EntryPrices, c \in Confidences :
           RmOpenPosition(t, a, e, c)
    \/ RmCheckPositionExits
    \/ \E p \in MaticPrices : MarketUpdate(p)

(***************************************************************************)
(* Claims about PaperTrader / RiskManager                                  *)
(***************************************************************************)
\* the value of the ledger: every held token at its current price, cents
LedgerValue ==
    (balances["ETH"] * price["ETH"]) \div 100
    + (balances["WETH"] * price["WETH"]) \div 100
    + (balances["USDC"] * price["USDC"]) \div 100
    + (balances["USDT"] * price["USDT"]) \div 100
    + (balances["DAI"] * price["DAI"]) \div 100
    + (balances["MATIC"] * price["MATIC"]) \div 100

\* C3: in every reachable state the reported total value (portfolio_value,
\* wallet.total_usd) equals the cash plus every held token's quantity times
\* its current price.
C3_TotalValueCountsEveryToken == PortfolioValue = LedgerValue

\* C6: once the emergency stop is active, every step other than
\* deactivate_emergency_stop leaves it active, and every can_open_position
\* evaluated meanwhile (directly or by execute_buy) is refused because of it.
C6_EmergencyLatch ==
    [][(emergency_stop_active /\ last'.op # "deactivate_emergency_stop")
          => /\ emergency_stop_active'
             /\ (last'.op \in {"can_open_position", "execute_buy"}
                   => last'.outcome = "refused" /\ last'.reason = "emergency_stop")
      ]_vars

\* C6 witness: the latch was set, another operation ran, and a later
\* can_open_position was refused because of the latch
C6_Witness ==
    /\ emergency_stop_active
    /\ steps >= 3
    /\ last.op = "can_open_position"
    /\ last.outcome = "refused"
    /\ last.reason = "emergency_stop"

\* the first four checks of can_open_position in the claimed order; "none"
\* when all four pass
FirstLimitFailure(position_size) ==
    IF emergency_stop_active THEN "emergency_stop"
    ELSE IF Cardinality(DOMAIN rm_positions) >= MaxOpenPositions THEN "max_positions"
    ELSE IF daily_start_value > 0
            /\ (current_portfolio_value - daily_start_value) * 100
                   < - DailyLossLimitPercent * daily_start_value
    THEN "daily_loss_limit"
    ELSE IF position_size * 100 > current_portfolio_value * MaxPositionPercent
    THEN "position_size"
    ELSE "none"

\* C7: every can_open_position call returns (allowed, reason): the reason of
\* the first failing check in the order emergency stop, position count, daily
\* loss, position size, high-risk token with low confidence; allowed when no
\* check fails.
C7_FirstFailingCheckWins ==
    last.op = "can_open_position"
      => /\ last.outcome \in {"refused", "allowed"}
         /\ IF FirstLimitFailure(last.amount) # "none"
            THEN last.outcome = "refused"
                 /\ last.reason = FirstLimitFailure(last.amount)
            ELSE last.reason \in {"high_risk", "allowed"}

\* C8: an execute_buy for more than 10% of the portfolio value, with no
\* earlier check of the risk gate failing, is refused with the position-size
\* reason.
C8_OversizeBuyRefused ==
    (/\ last.op = "execute_buy"
     /\ last.amount * 100 > PortfolioValue * MaxPositionPercent
     /\ ~emergency_stop_active
     /\ FirstLimitFailure(0) = "none")
      => last.outcome = "refused" /\ last.reason = "position_size"

(***************************************************************************)
(* Part II.  Exact rational arithmetic for the script ledgers: a value is   *)
(* <<numerator, denominator>> in lowest terms with denominator > 0.         *)
(***************************************************************************)
Abs(x) == IF x < 0 THEN -x ELSE x

RECURSIVE Gcd(_, _)

Gcd(a, b) == IF b = 0 THEN a ELSE Gcd(b, a % b)

Norm(n, d) == LET g == Gcd(Abs(n), d) IN <<n \div g, d \div g>>

RInt(k) == <<k, 1>>

RZero == <<0, 1>>

RAdd(x, y) ==
    LET g == Gcd(x[2], y[2])
    IN Norm(x[1] * (y[2] \div g) + y[1] * (x[2] \div g), (x[2] \div g) * y[2])

RNeg(x) == <<-x[1], x[2]>>

RSub(x, y) == RAdd(x, RNeg(y))

RMul(x, y) ==
    LET g1 == Gcd(Abs(x[1]), y[2])
        g2 == Gcd(Abs(y[1]), x[2])
    IN Norm((x[1] \div g1) * (y[1] \div g2), (x[2] \div g2) * (y[2] \div g1))

\* division by a positive rational
RDiv(x, y) == RMul(x, <<y[2], y[1]>>)

RLess(x, y) == RSub(x, y)[1] < 0

RLeq(x, y) == RSub(x, y)[1] <= 0

RMin(x, y) == IF RLess(x, y) THEN x ELSE y

(***************************************************************************)
(* auto_paper_trader.py.  Prices are integers in 1/1000 USD; thresholds     *)
(* (momentum_threshold, dip_threshold, take_profit, stop_loss) are in       *)
(* 1/10 percent; balances and P&L are rational USD / rational tokens.       *)
(***************************************************************************)
\* 1/1000 USD per price unit
MaticPriceScale == 1000

\* main(): "keep last 24 hours = 288 5-min intervals"
HistoryCap == 288

\* detect_market_regime: "Need 1 hour of data"
RegimeWindow == 12

\* execute_trade: a BUY needs balance_usdc >= 100 and spends at most 1000
MinCash == 100

MaxTradeUsd == 1000

\* the price as a rational amount of USD
Usd(p, scale) == Norm(p, scale)

\* load_state(): the default state
DefaultState ==
    [balance_usdc |-> RInt(10000), balance_matic |-> RZero, trades |-> <<>>,
     total_pnl |-> RZero, win_count |-> 0, loss_count |-> 0,
     last_price |-> 500, hourly_prices |-> <<>>,
     position |-> "NONE", entry_price |-> NoValue,
     trades_today |-> 0, daily_pnl |-> RZero, consecutive_losses |-> 0,
     best_trade |-> <<>>, worst_trade |-> <<>>]

\* state['trades'][-1].get('strategy', 'momentum')
StrategyOfLastTrade(S) ==
    LET t == S.trades[Len(S.trades)]
    IN IF "strategy" \in DOMAIN t THEN t.strategy ELSE "momentum"

\* load_learning_data(): the default learning data
DefaultLearningData ==
    [strategy_performance |->
        [s \in {"momentum", "dip_buying", "breakout"} |->
            [wins |-> 0, losses |-> 0, total_pnl |-> RZero]],
     optimal_params |->
        [momentum_threshold |-> 20, dip_threshold |-> -30, take_profit |-> 50,
         stop_loss |-> -30, position_size |-> 10],
     adaptation_history |-> <<>>]

Last(seq) == seq[Len(seq)]

Tail12_Whole(seq) == seq

\* price_history[-12:]
Tail12(seq) == SubSeq(seq, Len(seq) - RegimeWindow + 1, Len(seq))

RECURSIVE StepVolatility(_, _)

\* sum over i = 2..n of |recent[i] - recent[i-1]| / recent[i-1]
StepVolatility(recent, n) ==
    IF n < 2 THEN RZero
    ELSE CHOOSE total \in
           {RAdd(before, Norm(Abs(recent[n] - recent[n - 1]), recent[n - 1])) :
              before \in {StepVolatility(recent, n - 1)}} : TRUE

\* detect_market_regime(price_history)
DetectMarketRegime(price_history) ==
    IF Len(price_history) < RegimeWindow THEN "unknown"
    ELSE
      LET recent == Tail12(price_history)
          first_price == recent[1]
          last_price == recent[RegimeWindow]
          \* volatility < 2  <=>  sum * 100 / 12 < 2
          calm == RLess(RMul(StepVolatility(recent, RegimeWindow), RInt(100)),
                        RInt(2 * RegimeWindow))
      IN IF (last_price - first_price) * 100 > 3 * first_price /\ calm
         THEN "trending_up"
         ELSE IF (last_price - first_price) * 100 < -3 * first_price /\ calm
         THEN "trending_down"
         ELSE "choppy"

LogEntry_Aliased(changes, params) ==
    [changes |-> changes, new_params |-> params, own_copy |-> FALSE]

\* adapt_strategy: {"changes": adaptations, "new_params": params.copy()}; the
\* entry holds its own copy of the dict, not the dict the tuner goes on
\* writing to.  The timestamp is left out.
LogEntry(changes, params) ==
    [changes |-> changes, new_params |-> params, own_copy |-> TRUE]

\* what entry['new_params'] reads as, given the learning data it is part of
SnapshotIn(entry, D) ==
    IF entry.own_copy THEN entry.new_params ELSE D.optimal_params

RaisedThreshold_Uncapped(threshold) == threshold + 5

\* adapt_strategy: min(params['momentum_threshold'] + 0.5, 5.0)
RaisedThreshold(threshold) == Min(threshold + 5, 50)

\* adapt_strategy: max(params['momentum_threshold'] - 0.3, 1.0)
LoweredThreshold(threshold) == Max(threshold - 3, 10)

\* adapt_strategy(learning_data, state): returns both dicts and the changes
AdaptStrategy(D, S) ==
    LET params == D.optimal_params
        momentum_perf == D.strategy_performance["momentum"]
        total_momentum == momentum_perf.wins + momentum_perf.losses
        \* momentum threshold
        raise == total_momentum >= 5 /\ momentum_perf.wins * 10 < 4 * total_momentum
        lower == total_momentum >= 5 /\ ~raise
                 /\ momentum_perf.wins * 10 > 6 * total_momentum
        p1 == IF raise
              THEN [params EXCEPT !.momentum_threshold = RaisedThreshold(@)]
              ELSE IF lower
              THEN [params EXCEPT !.momentum_threshold = LoweredThreshold(@)]
              ELSE params
        a1 == IF raise THEN <<"raised_momentum_threshold">>
              ELSE IF lower THEN <<"lowered_momentum_threshold">> ELSE <<>>
        \* stop loss after consecutive losses
        widen == S.consecutive_losses >= 3
        p2 == IF widen THEN [p1 EXCEPT !.stop_loss = -40] ELSE p1
        a2 == IF widen THEN Append(a1, "widened_stop_loss") ELSE a1
        S2 == IF widen THEN [S EXCEPT !.consecutive_losses = 0] ELSE S
        \* take profit by regime
        regime == DetectMarketRegime(S.hourly_prices)
        p3 == IF regime = "trending_up" THEN [p2 EXCEPT !.take_profit = 70]
              ELSE IF regime = "choppy" THEN [p2 EXCEPT !.take_profit = 30]
              ELSE p2
        a3 == IF regime = "trending_up" THEN Append(a2, "increased_take_profit")
              ELSE IF regime = "choppy" THEN Append(a2, "lowered_take_profit")
              ELSE a2
        D2 == [D EXCEPT !.optimal_params = p3,
                        !.adaptation_history =
                            IF a3 # <<>>
                            THEN Append(@, LogEntry(a3, p3))
                            ELSE @]
    IN [learning_data |-> D2, state |-> S2, adaptations |-> a3]

StopLossHit_Strict(current_price, entry, params) ==
    (current_price - entry) * 1000 < params.stop_loss * entry

\* adaptive_strategy: pnl_pct <= params['stop_loss']
StopLossHit(current_price, entry, params) ==
    (current_price - entry) * 1000 <= params.stop_loss * entry

\* adaptive_strategy(state, current_price, learning_data): (signal, reason)
AdaptiveStrategy(S, current_price, D) ==
    LET params == D.optimal_params
        hp == S.hourly_prices
    IN IF Len(hp) < 2 THEN [signal |-> "NONE", reason |-> "collecting"]
       ELSE
         LET prev == hp[Len(hp) - 1]
             oldest == hp[1]
             regime == DetectMarketRegime(hp)
             entry == S.entry_price
         IN IF S.position = "NONE"
            THEN IF (current_price - prev) * 1000 >= params.momentum_threshold * prev
                 THEN [signal |-> "BUY", reason |-> "momentum"]
                 ELSE IF (current_price - prev) * 1000 <= params.dip_threshold * prev
                 THEN [signal |-> "BUY", reason |-> "dip"]
                 ELSE IF regime = "trending_up" /\ Len(hp) >= RegimeWindow
                         /\ (current_price - oldest) * 100 > 5 * oldest
                 THEN [signal |-> "BUY", reason |-> "breakout"]
                 ELSE [signal |-> "NONE", reason |-> "hold"]
            ELSE IF S.position = "LONG"
            THEN IF (current_price - entry) * 1000 >= params.take_profit * entry
                 THEN [signal |-> "SELL", reason |-> "take_profit"]
                 ELSE IF StopLossHit(current_price, entry, params)
                 THEN [signal |-> "SELL", reason |-> "stop_loss"]
                 ELSE IF regime = "trending_up"
                         /\ (current_price - entry) * 100 > 3 * entry
                 THEN [signal |-> "SELL", reason |-> "trailing_stop"]
                 ELSE [signal |-> "NONE", reason |-> "hold"]
            ELSE [signal |-> "NONE", reason |-> "hold"]

NextConsecutiveLosses_NoReset(won, n) == IF won THEN n ELSE n + 1

\* execute_trade: consecutive_losses = 0 after a win, += 1 otherwise
NextConsecutiveLosses(won, n) == IF won THEN 0 ELSE n + 1

UsdcReceived_Fee(matic_sold, px) == RMul(RMul(matic_sold, px), <<997, 1000>>)

\* execute_trade: usdc_received = matic_sold * current_price
UsdcReceived(matic_sold, px) == RMul(matic_sold, px)

\* execute_trade(state, signal, current_price, reason, learning_data);
\* best_trade / worst_trade are <<>> (None) or <<pnl>>
ExecuteTrade(S, signal, current_price, reason, D) ==
    LET params == D.optimal_params
        px == Usd(current_price, MaticPriceScale)
    IN IF signal = "BUY" /\ RLeq(RInt(MinCash), S.balance_usdc)
       THEN
         LET trade_amount == RMin(RMul(S.balance_usdc, Norm(params.position_size, 100)),
                                  RInt(MaxTradeUsd))
             matic_received == RDiv(trade_amount, px)
             trade == [type |-> "BUY", usdc_spent |-> trade_amount,
                       matic_received |-> matic_received, price |-> current_price,
                       reason |-> reason,
                       strategy |-> IF reason = "momentum" THEN "momentum"
                                    ELSE "dip_buying"]
         IN [state |-> [S EXCEPT !.balance_usdc = RSub(@, trade_amount),
                                 !.balance_matic = RAdd(@, matic_received),
                                 !.position = "LONG",
                                 !.entry_price = current_price,
                                 !.trades = Append(@, trade),
                                 !.trades_today = @ + 1],
             learning_data |-> D, executed |-> TRUE]
       ELSE IF signal = "SELL" /\ RLess(RZero, S.balance_matic)
       THEN
         LET matic_sold == S.balance_matic
             usdc_received == UsdcReceived(matic_sold, px)
             entry == S.entry_price
             pnl == RMul(Norm(current_price - entry, MaticPriceScale), matic_sold)
             pnl_pct == Norm((current_price - entry) * 100, entry)
             won == RLess(RZero, pnl)
             strategy == StrategyOfLastTrade(S)
             trade == [type |-> "SELL", matic_sold |-> matic_sold,
                       usdc_received |-> usdc_received, price |-> current_price,
                       pnl |-> pnl, pnl_pct |-> pnl_pct, reason |-> reason]
         IN [state |->
               [S EXCEPT !.balance_usdc = RAdd(@, usdc_received),
                         !.balance_matic = RZero,
                         !.position = "NONE",
                         !.total_pnl = RAdd(@, pnl),
                         !.daily_pnl = RAdd(@, pnl),
                         !.win_count = IF won THEN @ + 1 ELSE @,
                         !.loss_count = IF won THEN @ ELSE @ + 1,
                         !.consecutive_losses = NextConsecutiveLosses(won, @),
                         !.best_trade = IF @ = <<>> \/ RLess(@[1], pnl)
                                        THEN <<pnl>> ELSE @,
                         !.worst_trade = IF @ = <<>> \/ RLess(pnl, @[1])
                                         THEN <<pnl>> ELSE @,
                         !.trades = Append(@, trade)],
             learning_data |->
               [D EXCEPT !.strategy_performance[strategy] =
                   [@ EXCEPT !.wins = IF won THEN @ + 1 ELSE @,
                             !.losses = IF won THEN @ ELSE @ + 1,
                             !.total_pnl = RAdd(@, pnl)]],
             executed |-> TRUE]
       ELSE [state |-> S, learning_data |-> D, executed |-> FALSE]

AppendCapped_KeepOldest(history, p) ==
    LET h == Append(history, p)
    IN IF Len(h) > HistoryCap THEN SubSeq(h, 1, HistoryCap) ELSE h

\* hourly_prices.append(price), then keep the last 288
AppendCapped(history, p) ==
    LET h == Append(history, p)
    IN IF Len(h) > HistoryCap THEN SubSeq(h, Len(h) - HistoryCap + 1, Len(h)) ELSE h

\* main() up to the report-mode branch: record the fetched price
RecordPrice(S, p) ==
    [S EXCEPT !.last_price = p, !.hourly_prices = AppendCapped(@, p)]

\* the outcome of one trading cycle of main() on price p
TradingCycle(S, D, p) ==
    CHOOSE outcome \in
      UNION {UNION {{IF sig.signal # "NONE"
                     THEN ExecuteTrade(A.state, sig.signal, p, sig.reason,
                                       A.learning_data)
                     ELSE [state |-> A.state, learning_data |-> A.learning_data,
                           executed |-> FALSE] :
                       sig \in {AdaptiveStrategy(A.state, p, A.learning_data)}} :
                    A \in {AdaptStrategy(D, S1)}} :
             S1 \in {RecordPrice(S, p)}} : TRUE

(***************************************************************************)
(* btc_ab_trader.py.  BTC prices are integers in USD.                       *)
(***************************************************************************)
\* reset_accounts(): "btc_price": 68700.0
DefaultBtcPrice == 68700

\* execute_trade: position_size = 0.15, in percent
AbPositionSizePercent == 15

\* execute_trade: min(balance * position_size, 1500)
AbMaxTradeUsd == 1500

\* execute_trade: a BUY needs balance_usdc >= 100
AbMinCash == 100

\* strategy_b_mean_reversion: 6-period mean
MeanWindow == 6

NewAccount ==
    [balance_usdc |-> RInt(10000), balance_btc |-> RZero, position |-> "NONE",
     entry_price |-> NoValue, trades |-> <<>>, total_pnl |-> RZero,
     win_count |-> 0, loss_count |-> 0, trades_today |-> 0, daily_pnl |-> RZero]

\* reset_accounts()
ResetAccounts ==
    [btc_price |-> DefaultBtcPrice,
     price_history |-> [i \in 1..12 |-> DefaultBtcPrice],
     account_a |-> NewAccount, account_b |-> NewAccount, total_cycles |-> 0]

\* strategy_a_momentum(account, current_price, price_history)
StrategyAMomentum(account, current_price, price_history) ==
    IF Len(price_history) < 2 THEN [signal |-> "NONE", reason |-> "collecting"]
    ELSE
      LET prev_price == price_history[Len(price_history) - 1]
          change == current_price - prev_price
          entry == account.entry_price
      IN IF account.position = "NONE"
         THEN IF change * 1000 >= 15 * prev_price
              THEN [signal |-> "BUY", reason |-> "momentum"]
              ELSE [signal |-> "NONE", reason |-> "hold"]
         ELSE IF account.position = "LONG"
         THEN IF (current_price - entry) * 100 >= 8 * entry
              THEN [signal |-> "SELL", reason |-> "momentum_profit"]
              ELSE IF (current_price - entry) * 100 <= -4 * entry
              THEN [signal |-> "SELL", reason |-> "stop_loss"]
              ELSE IF change * 100 <= -1 * prev_price
              THEN [signal |-> "SELL", reason |-> "momentum_fading"]
              ELSE [signal |-> "NONE", reason |-> "hold"]
         ELSE [signal |-> "NONE", reason |-> "hold"]

RECURSIVE SumLast(_, _)

\* the sum of the last n entries of seq
SumLast(seq, n) ==
    IF n = 0 THEN 0 ELSE seq[Len(seq) - n + 1] + SumLast(seq, n - 1)

\* strategy_b_mean_reversion(account, current_price, price_history);
\* deviation = (price / mean - 1) * 100 with mean = total / 6
StrategyBMeanReversion(account, current_price, price_history) ==
    IF Len(price_history) < MeanWindow
    THEN [signal |-> "NONE", reason |-> "collecting"]
    ELSE
      LET total == SumLast(price_history, MeanWindow)
          above == MeanWindow * current_price - total
          entry == account.entry_price
      IN IF account.position = "NONE"
         THEN IF above * 100 <= -2 * total
              THEN [signal |-> "BUY", reason |-> "oversold"]
              ELSE [signal |-> "NONE", reason |-> "hold"]
         ELSE IF account.position = "LONG"
         THEN IF above >= 0 /\ current_price > entry
              THEN [signal |-> "SELL", reason |-> "back_to_mean"]
              ELSE IF (current_price - entry) * 100 >= 5 * entry
              THEN [signal |-> "SELL", reason |-> "profit_target"]
              ELSE IF (current_price - entry) * 100 <= -5 * entry
              THEN [signal |-> "SELL", reason |-> "stop_loss"]
              ELSE [signal |-> "NONE", reason |-> "hold"]
         ELSE [signal |-> "NONE", reason |-> "hold"]

\* execute_trade(account, signal, current_price, reason) of btc_ab_trader.py
AbExecuteTrade(account, signal, current_price, reason) ==
    IF signal = "BUY" /\ RLeq(RInt(AbMinCash), account.balance_usdc)
    THEN
      LET trade_amount == RMin(RMul(account.balance_usdc,
                                    Norm(AbPositionSizePercent, 100)),
                               RInt(AbMaxTradeUsd))
          btc == RDiv(trade_amount, RInt(current_price))
          trade == [type |-> "BUY", usdc |-> trade_amount, btc |-> btc,
                    price |-> current_price, reason |-> reason]
      IN [account EXCEPT !.balance_usdc = RSub(@, trade_amount),
                         !.balance_btc = RAdd(@, btc),
                         !.position = "LONG",
                         !.entry_price = current_price,
                         !.trades = Append(@, trade),
                         !.trades_today = @ + 1]
    ELSE IF signal = "SELL" /\ RLess(RZero, account.balance_btc)
    THEN
      LET btc == account.balance_btc
          usdc == RMul(btc, RInt(current_price))
          pnl == RMul(RInt(current_price - account.entry_price), btc)
          won == RLess(RZero, pnl)
      IN [account EXCEPT !.balance_usdc = RAdd(@, usdc),
                         !.balance_btc = RZero,
                         !.position = "NONE",
                         !.total_pnl = RAdd(@, pnl),
                         !.daily_pnl = RAdd(@, pnl),
                         !.win_count = IF won THEN @ + 1 ELSE @,
                         !.loss_count = IF won THEN @ ELSE @ + 1]
    ELSE account

\* run one strategy on its account and execute its signal, if any
RunStrategy(account, sig, current_price) ==
    IF sig.signal # "NONE"
    THEN AbExecuteTrade(account, sig.signal, current_price, sig.reason)
    ELSE account

\* run_ab_test_cycle(state, current_price)
RunAbTestCycle(T, current_price) ==
    LET sig_a == StrategyAMomentum(T.account_a, current_price, T.price_history)
        sig_b == StrategyBMeanReversion(T.account_b, current_price, T.price_history)
    IN [T EXCEPT !.account_a = RunStrategy(@, sig_a, current_price),
                 !.account_b = RunStrategy(@, sig_b, current_price),
                 !.total_cycles = @ + 1]

(***************************************************************************)
(* The script runs: each run of a script's main() is one action.            *)
(***************************************************************************)
\* prices the MATIC feed delivers, in 1/1000 USD
MaticFeed == {485, 500, 525, 550}

\* prices the BTC feed delivers, in USD
BtcFeed == {66000, 68700, 70000, 72000, 75600}

\* nine quiet cycles at 0.485: no signal fires and no parameter changes
WarmHistory == [i \in 1..9 |-> 485]

\* detect_market_regime has not been called
NoRegimeCall == [window |-> <<>>, regime |-> "unknown"]

\* the first day: neither script has run on an earlier day
FirstDay == [today |-> 0, matic |-> 0, btc |-> 0]

\* a script run saves its state today
RunOn(script) == [calendar EXCEPT ![script] = calendar.today]

\* what a run's price fetch returned: which feed, whether it answered, and
\* the price main() went on with (NoValue for None)
Fetched(source, up, p) == [source |-> source, up |-> up, price |-> p]

Tick ==
    /\ ticks < MaxTicks
    /\ ticks' = ticks + 1
    /\ UNCHANGED <<traderVars, dashVars, strategyVars, regime_call>>

\* auto_paper_trader.py main(): a trading cycle
AutoTick(p) ==
    /\ Tick
    /\ feed' = Fetched("matic", TRUE, p)
    /\ LET T == TradingCycle(state, learning_data, p)
       IN /\ state' = T.state
          /\ learning_data' = T.learning_data
    /\ calendar' = RunOn("matic")
    /\ UNCHANGED ab_state

\* auto_paper_trader.py main() with --report: the price is recorded only
AutoReport(p) ==
    /\ Tick
    /\ feed' = Fetched("matic", TRUE, p)
    /\ state' = RecordPrice(state, p)
    /\ calendar' = RunOn("matic")
    /\ UNCHANGED <<learning_data, ab_state>>

\* btc_ab_trader.py main(): record the price
AbRecordPrice(T, p) ==
    [T EXCEPT !.btc_price = p, !.price_history = AppendCapped(@, p)]

\* the A/B script has run fewer than MaxCycles trading cycles since its reset
AbTickAllowed == ab_state.total_cycles < MaxCycles

\* btc_ab_trader.py main(): an A/B cycle
AbTick(p) ==
    /\ Tick
    /\ AbTickAllowed
    /\ feed' = Fetched("btc", TRUE, p)
    /\ ab_state' = RunAbTestCycle(AbRecordPrice(ab_state, p), p)
    /\ calendar' = RunOn("btc")
    /\ UNCHANGED <<state, learning_data>>

\* btc_ab_trader.py main() with --report
AbReport(p) ==
    /\ Tick
    /\ AbTickAllowed
    /\ feed' = Fetched("btc", TRUE, p)
    /\ ab_state' = AbRecordPrice(ab_state, p)
    /\ calendar' = RunOn("btc")
    /\ UNCHANGED <<state, learning_data>>

\* btc_ab_trader.py main() with --reset
AbReset ==
    /\ ab_state' = ResetAccounts
    /\ UNCHANGED <<state, learning_data, ticks, feed, regime_call, traderVars,
                   dashVars, strategyVars, clockVars>>

\* auto_paper_trader.py get_matic_price() when the request fails: None, and
\* main() logs and returns before it touches the state, in either mode
AutoTickFeedDown ==
    /\ Tick
    /\ feed' = Fetched("matic", FALSE, NoValue)
    /\ UNCHANGED <<state, learning_data, ab_state, calendar>>

\* btc_ab_trader.py get_btc_price() when the request fails: the last saved
\* price moved by a random fraction within +-0.5%, or the default when no
\* price is saved.  The moves stand for the draws of random.uniform.
FallbackMoves == {-300, 0, 300}

GetBtcPriceFallback(T) ==
    IF T.btc_price # NoValue /\ T.btc_price # 0
    THEN {T.btc_price + move :
            move \in {mv \in FallbackMoves : Abs(mv) * 1000 <= 5 * T.btc_price}}
    ELSE {DefaultBtcPrice}

\* btc_ab_trader.py main() when the feed fails: an A/B cycle on that price
AbTickFeedDown ==
    /\ Tick
    /\ AbTickAllowed
    /\ \E p \in GetBtcPriceFallback(ab_state) :
          /\ feed' = Fetched("btc", FALSE, p)
          /\ ab_state' = RunAbTestCycle(AbRecordPrice(ab_state, p), p)
    /\ calendar' = RunOn("btc")
    /\ UNCHANGED <<state, learning_data>>

RECURSIVE Replay(_, _, _, _)

\* the two persisted dicts after the runs run[i..] of main(): each run is
\* <<"report", price>> (main() with --report) or <<"tick", price>>
Replay(S, D, run, i) ==
    IF i > Len(run) THEN [state |-> S, learning_data |-> D]
    ELSE CHOOSE after \in
           UNION {{Replay(T.state, T.learning_data, run, i + 1) :
                     T \in {IF r[1] = "report"
                            THEN [state |-> RecordPrice(S, r[2]),
                                  learning_data |-> D]
                            ELSE TradingCycle(S, D, r[2])}} :
                  r \in {run[i]}} : TRUE

\* a dip entry at 0.50 (after a reported 0.52) closed at the given price
RoundTrip(exit_price) ==
    << <<"report", 520>>, <<"tick", 500>>, <<"tick", exit_price>> >>

\* two winning round trips, then three losing ones at the default stop loss
ThreeLossesRun ==
    RoundTrip(550) \o RoundTrip(550) \o RoundTrip(485) \o RoundTrip(485)
        \o RoundTrip(485)

\* three more losing round trips, at the widened stop loss
WidenedLossesRun == RoundTrip(480) \o RoundTrip(480) \o RoundTrip(480)

\* the persisted dicts after ThreeLossesRun on a fresh start
AfterThreeLosses == Replay(DefaultState, DefaultLearningData, ThreeLossesRun, 1)

\* the persisted dicts after WidenedLossesRun on top of that
AfterSixLosses ==
    CHOOSE after \in
      {Replay(before.state, before.learning_data, WidenedLossesRun, 1) :
         before \in {AfterThreeLosses}} : TRUE

\* the persisted dicts a script run can find: none (defaults), nine quiet
\* cycles at 0.485, and the two histories above
ScriptStarts ==
    {[state |-> DefaultState, learning_data |-> DefaultLearningData],
     [state |-> [DefaultState EXCEPT !.hourly_prices = WarmHistory,
                                     !.last_price = 485],
      learning_data |-> DefaultLearningData],
     AfterThreeLosses, AfterSixLosses}

\* the runs already counted at the start: the two long histories are
\* followed for two runs fewer than a fresh start
RunsCounted(start) == IF start.state.trades = <<>> THEN 0 ELSE 2

InitScripts ==
    /\ \E start \in ScriptStarts :
          /\ state = start.state
          /\ learning_data = start.learning_data
          /\ ticks = RunsCounted(start)
    /\ ab_state = ResetAccounts
    /\ feed = Fetched("none", TRUE, NoValue)
    /\ regime_call = NoRegimeCall
    /\ calendar = FirstDay

\* no script has run yet
InitFreshScripts ==
    /\ state = DefaultState
    /\ learning_data = DefaultLearningData
    /\ ab_state = ResetAccounts
    /\ ticks = 0
    /\ feed = Fetched("none", TRUE, NoValue)
    /\ regime_call = NoRegimeCall
    /\ calendar = FirstDay

NextScripts ==
    \/ \E p \in MaticFeed : AutoTick(p)
    \/ AutoReport(500)
    \/ \E p \in BtcFeed : AbTick(p)
    \/ AbReport(68700)
    \/ AbReset
    \/ AutoTickFeedDown
    \/ AbTickFeedDown

(***************************************************************************)
(* dashboard.py: request handlers run in the server's threads and          *)
(* background_updates in its own thread, on the one module-level           *)
(* paper_trader, with no lock.  A call is modelled by two steps, its       *)
(* entry and its return; the effect on the trader takes place at return.   *)
(***************************************************************************)
\* api_trade (buy / sell), api_position DELETE (sell 100%), api_reset
Requests ==
    [op : {"execute_buy"}, token : TradeTokens, amount : BuyAmounts]
    \cup [op : {"execute_sell"}, token : TradeTokens, amount : SellPercents]
    \cup [op : {"reset"}, token : {"all"}, amount : {InitialUsdc, 500000}]

\* StrategyManager has not been asked for a consensus
NoConsensus ==
    [signals |-> <<>>, called |-> FALSE, raised |-> FALSE, action |-> "none",
     confidence |-> <<0, 1>>]

\* no strategy has analyzed anything
NoSignal == [action |-> "none", confidence |-> NoValue, reason |-> "none"]

\* MeanReversionStrategy.analyze has not been called
NoAnalysis == [prices |-> <<>>, called |-> FALSE, signal |-> NoSignal]

\* config.py STRATEGIES["grid_trading"]
GridLevels == 5

GridSpacingPercent == 1

\* GridTradingStrategy.__init__ under a configuration
NewGrid(config) ==
    [config |-> config, grid_levels |-> EmptyMap, token |-> "none",
     signal |-> NoSignal]

DefaultGridConfig ==
    [grid_levels |-> GridLevels, grid_spacing_percent |-> GridSpacingPercent]

\* no request is being handled
IdleRequest == [op |-> "idle", token |-> "all", amount |-> NoValue]

\* the background thread is between two calls of check_positions
IdleBackground == [pc |-> "idle", todo |-> {}]

\* a handler thread enters PaperTrader.execute_buy / execute_sell / reset
RequestBegin(req) ==
    /\ steps < MaxSteps
    /\ dash_request = IdleRequest
    /\ dash_request' = req
    /\ steps' = steps + 1
    /\ UNCHANGED <<strategyVars, clockVars, price, ledgerVars, trackVars, riskVars, last, scriptVars,
                   dash_background>>

\* the handler's call returns
RequestReturn ==
    /\ dash_request # IdleRequest
    /\ dash_request' = IdleRequest
    /\ LET req == dash_request
       IN IF req.op = "execute_buy"
          THEN LET r == BuyOn(Ledger, req.token, req.amount, 100)
                   current_value == TotalUsd(r.ledger.balances)
               IN /\ SetLedger(r.ledger)
                  /\ IF r.outcome = "ok"
                     THEN /\ highest_value' = Max(highest_value, current_value)
                          /\ lowest_value' = Min(lowest_value, current_value)
                     ELSE UNCHANGED <<highest_value, lowest_value>>
                  /\ last' = Call("execute_buy", req.token, req.amount, 100,
                                  r.outcome, r.reason)
                  /\ UNCHANGED start_value
          ELSE IF req.op = "execute_sell"
          THEN LET r == SellOn(Ledger, req.token, req.amount)
               IN /\ SetLedger(r.ledger)
                  /\ last' = Call("execute_sell", req.token, req.amount, NoValue,
                                  r.outcome, r.reason)
                  /\ UNCHANGED trackVars
          ELSE /\ balances' = NewWallet(InitialEth, req.amount)
               /\ tx_history' = <<>>
               /\ positions' = EmptyMap
               /\ trade_history' = <<>>
               /\ start_value' = TotalUsd(balances')
               /\ highest_value' = start_value'
               /\ lowest_value' = start_value'
               /\ last' = Call("reset", "all", req.amount, NoValue, "ok", "reset")
    /\ UNCHANGED <<price, riskVars, steps, scriptVars, strategyVars, clockVars,
                   dash_background>>

\* background_updates enters check_positions: list(self.positions.items())
BackgroundBegin ==
    /\ steps < MaxSteps
    /\ dash_background = IdleBackground
    /\ dash_background' = [pc |-> "check_positions", todo |-> DOMAIN positions]
    /\ steps' = steps + 1
    /\ UNCHANGED <<strategyVars, clockVars, price, ledgerVars, trackVars, riskVars, last, scriptVars,
                   dash_request>>

\* check_positions works through its snapshot and returns
BackgroundReturn ==
    /\ dash_background # IdleBackground
    /\ dash_background' = IdleBackground
    /\ LET r == CheckFold(Ledger, dash_background.todo \cap DOMAIN positions, {})
       IN /\ SetLedger(r.ledger)
          /\ last' = [Call("check_positions", "all", NoValue, NoValue, "ok", "check")
                        EXCEPT !.closed = r.closed]
    /\ UNCHANGED <<price, trackVars, riskVars, steps, scriptVars, strategyVars, clockVars,
                   dash_request>>

InitDashboard == dash_request = IdleRequest /\ dash_background = IdleBackground

\* StrategyManager.__init__
InitStrategies ==
    /\ consensus = NoConsensus
    /\ mean_reversion = NoAnalysis
    /\ grid = NewGrid(DefaultGridConfig)

NextDashboard ==
    \/ \E req \in Requests : RequestBegin(req)
    \/ RequestReturn
    \/ BackgroundBegin
    \/ BackgroundReturn

Init == InitTrader /\ InitScripts /\ InitDashboard /\ InitStrategies

(***************************************************************************)
(* The tuner of auto_paper_trader.py on ledgers with a momentum record:    *)
(* the persisted dicts are those the script's own runs leave behind.       *)
(***************************************************************************)
\* a momentum entry at 0.50 (after a reported 0.48) closed at the given price
MomentumTrip(exit_price) ==
    << <<"report", 480>>, <<"tick", 500>>, <<"tick", exit_price>> >>

\* n trading cycles on an unchanged price: no signal fires
QuietTicks(p, n) == [i \in 1..n |-> <<"tick", p>>]

RECURSIVE Trips(_)

\* the round trips of a sequence of exit prices, one after the other
Trips(exits) ==
    IF exits = <<>> THEN <<>>
    ELSE MomentumTrip(exits[1]) \o Trips(Tail(exits))

\* the persisted dicts after the given runs on top of the given dicts
ReplayOn(before, run) ==
    CHOOSE after \in
      {Replay(b.state, b.learning_data, run, 1) : b \in {before}} : TRUE

FreshStart == [state |-> DefaultState, learning_data |-> DefaultLearningData]

\* five dip entries closed with a gain, then five momentum entries closed
\* with a loss
AfterFiveMomentumLosses ==
    ReplayOn(ReplayOn(FreshStart, RoundTrip(550) \o RoundTrip(550) \o RoundTrip(550)
                                    \o RoundTrip(550) \o RoundTrip(550)),
             Trips(<<450, 450, 450, 450, 450>>))

\* five quiet cycles later
NearCap == ReplayOn(AfterFiveMomentumLosses, QuietTicks(450, 5))

\* five momentum entries closed with a gain
AfterFiveMomentumWins == ReplayOn(FreshStart, Trips(<<550, 550, 550, 550, 550>>))

\* three quiet cycles later
NearFloor == ReplayOn(AfterFiveMomentumWins, QuietTicks(550, 3))

\* three gains and two losses: win rate 0.6
AfterThreeOfFive == ReplayOn(FreshStart, Trips(<<550, 550, 550, 450, 450>>))

\* two gains and three losses: win rate 0.4
AfterTwoOfFive == ReplayOn(FreshStart, Trips(<<550, 550, 450, 450, 450>>))

\* twelve momentum round trips, 24 trade records: five gains, then seven
\* losses
AfterTwelveTrips ==
    ReplayOn(ReplayOn(AfterFiveMomentumWins, Trips(<<450, 450, 450, 450>>)),
             Trips(<<450, 450, 450>>))

\* n report-mode runs on an unchanged price
QuietReports(p, n) == [i \in 1..n |-> <<"report", p>>]

\* a dip entry at 0.48 after a reported 0.50, held through nine reports at
\* 0.48: eleven price samples, the regime still unknown
HeldBeforeTwelfthSample ==
    ReplayOn(FreshStart,
             << <<"report", 500>>, <<"tick", 480>> >> \o QuietReports(480, 9))

TunerStarts ==
    {FreshStart, AfterFiveMomentumLosses, NearCap, AfterFiveMomentumWins,
     NearFloor, AfterThreeOfFive, AfterTwoOfFive, AfterTwelveTrips,
     HeldBeforeTwelfthSample}

\* prices the MATIC feed delivers in these runs, in 1/1000 USD
TunerFeed == {450, 480, 500, 550}

\* the runs already counted at the start: a history with trades is followed
\* for one run fewer than a fresh start
TunerRunsCounted(start) == IF start.state.trades = <<>> THEN 0 ELSE 1

InitTuner ==
    /\ InitTrader
    /\ InitDashboard
    /\ InitStrategies
    /\ \E start \in TunerStarts :
          /\ state = start.state
          /\ learning_data = start.learning_data
          /\ ticks = TunerRunsCounted(start)
    /\ ab_state = ResetAccounts
    /\ feed = Fetched("none", TRUE, NoValue)
    /\ regime_call = NoRegimeCall
    /\ calendar = FirstDay

NextTuner ==
    \/ \E p \in TunerFeed : AutoTick(p)
    \/ AutoReport(480)

SpecTuner == InitTuner /\ [][NextTuner]_vars

\* the trader is constructed and no script has run
InitFresh ==
    InitTrader /\ InitFreshScripts /\ InitDashboard /\ InitStrategies

SpecTrader == InitFresh /\ [][NextTrader]_vars

SpecDashboard == InitFresh /\ [][NextDashboard]_vars

SpecScripts == Init /\ [][NextScripts]_vars

(***************************************************************************)
(* Claims about the script ledgers                                          *)
(***************************************************************************)
AutoValue(S, p) == RAdd(S.balance_usdc, RMul(S.balance_matic, Usd(p, MaticPriceScale)))

AbValue(account, p) == RAdd(account.balance_usdc, RMul(account.balance_btc, RInt(p)))

\* C2: every BUY or SELL executed by a script ledger's execute_trade at price p
\* leaves balance_usdc + balance_asset * p unchanged (both the adaptive MATIC
\* ledger and the two BTC A/B accounts).
C2_TradeConservesValue ==
    [][/\ Len(state'.trades) > Len(state.trades)
            => AutoValue(state', state'.last_price) = AutoValue(state, state'.last_price)
       /\ ab_state'.total_cycles = ab_state.total_cycles + 1
            => /\ AbValue(ab_state'.account_a, ab_state'.btc_price)
                    = AbValue(ab_state.account_a, ab_state'.btc_price)
               /\ AbValue(ab_state'.account_b, ab_state'.btc_price)
                    = AbValue(ab_state.account_b, ab_state'.btc_price)
      ]_vars

C2_Witness ==
    /\ Len(state.trades) >= 2 /\ state.position = "NONE"
    /\ ab_state.account_a.win_count + ab_state.account_a.loss_count >= 1

\* C10: in a trading cycle of the adaptive ledger that starts with take_profit
\* 5% and stop_loss -3%, a long position of quantity q entered at e is fully
\* closed when the price p is >= 1.05 e or <= 0.97 e: cash grows by q * p,
\* total_pnl by q * (p - e), and win_count (pnl > 0) or else loss_count by one.
C10_DefaultExitClosesPosition ==
    [][\A p \in MaticFeed :
         LET e == state.entry_price
             q == state.balance_matic
             pnl == RMul(q, Norm(p - e, MaticPriceScale))
         IN (/\ state.position = "LONG"
             /\ learning_data.optimal_params.take_profit = 50
             /\ learning_data.optimal_params.stop_loss = -30
             /\ AutoTick(p)
             /\ ((p - e) * 100 >= 5 * e \/ (p - e) * 100 <= -3 * e))
            => /\ state'.position = "NONE"
               /\ state'.balance_matic = RZero
               /\ state'.balance_usdc = RAdd(state.balance_usdc, RMul(q, Usd(p, MaticPriceScale)))
               /\ state'.total_pnl = RAdd(state.total_pnl, pnl)
               /\ IF RLess(RZero, pnl)
                  THEN /\ state'.win_count = state.win_count + 1
                       /\ state'.loss_count = state.loss_count
                  ELSE /\ state'.loss_count = state.loss_count + 1
                       /\ state'.win_count = state.win_count
      ]_vars

C10_Witness ==
    /\ state.position = "NONE" /\ Len(state.trades) = 2
    /\ state.trades[1].matic_received = RInt(2000) /\ state.trades[1].price = 500
    /\ state.trades[2].price = 485
    /\ state.balance_usdc = RInt(9970) /\ state.total_pnl = RInt(-30)
    /\ state.loss_count = 1 /\ state.consecutive_losses = 1
    /\ learning_data.optimal_params.take_profit = 50

\* consecutive_losses once the tuner has run on it
AfterTunerReset(n) == IF n >= 3 THEN 0 ELSE n

\* the A/B account closes its position in this step of an A/B cycle
AbCloses(before, after) ==
    /\ ab_state'.total_cycles = ab_state.total_cycles + 1
    /\ before.position = "LONG" /\ after.position = "NONE"

\* win_count / loss_count of an A/B account move as the realized P&L says
AbCountersFollowPnl(before, after) ==
    LET pnl == RMul(before.balance_btc, RInt(ab_state'.btc_price - before.entry_price))
    IN IF AbCloses(before, after)
       THEN IF RLess(RZero, pnl)
            THEN after.win_count = before.win_count + 1
                 /\ after.loss_count = before.loss_count
            ELSE after.loss_count = before.loss_count + 1
                 /\ after.win_count = before.win_count
       ELSE ab_state'.total_cycles = ab_state.total_cycles + 1
               => after.win_count = before.win_count
                  /\ after.loss_count = before.loss_count

\* C11: a close with P&L > 0 increments win_count and zeroes consecutive_losses;
\* a close with P&L <= 0 (zero included) increments loss_count and
\* consecutive_losses; nothing but the tuner's reset changes consecutive_losses
\* otherwise.  The A/B accounts keep win_count / loss_count by the same rule.
C11_CountersFollowCloses ==
    [][/\ LET pnl == RMul(state.balance_matic,
                          Norm(state'.last_price - state.entry_price, MaticPriceScale))
              base == AfterTunerReset(state.consecutive_losses)
          IN IF state.position = "LONG" /\ state'.position = "NONE"
             THEN IF RLess(RZero, pnl)
                  THEN /\ state'.win_count = state.win_count + 1
                       /\ state'.loss_count = state.loss_count
                       /\ state'.consecutive_losses = 0
                  ELSE /\ state'.loss_count = state.loss_count + 1
                       /\ state'.win_count = state.win_count
                       /\ state'.consecutive_losses = base + 1
             ELSE /\ state'.win_count = state.win_count
                  /\ state'.loss_count = state.loss_count
                  /\ state'.consecutive_losses
                        \in {state.consecutive_losses,
                             AfterTunerReset(state.consecutive_losses)}
       /\ AbCountersFollowPnl(ab_state.account_a, ab_state'.account_a)
       /\ AbCountersFollowPnl(ab_state.account_b, ab_state'.account_b)
      ]_vars

C11_Witness ==
    /\ Len(state.trades) = 4 /\ state.position = "NONE"
    /\ state.trades[2].pnl[1] < 0 /\ state.trades[4].pnl[1] > 0
    /\ state.win_count = 1 /\ state.loss_count = 1
    /\ state.consecutive_losses = 0

\* C12: a run of adapt_strategy (one trading cycle) that starts with
\* consecutive_losses >= 3 makes the stop loss strictly wider (more negative)
\* than before, resets consecutive_losses to 0 and appends exactly one entry
\* to adaptation_history, which names the widening.
C12_ThreeLossesWidenStop ==
    [][\A p \in MaticFeed :
         (state.consecutive_losses >= 3 /\ state.position = "NONE" /\ AutoTick(p))
            => /\ learning_data'.optimal_params.stop_loss
                    < learning_data.optimal_params.stop_loss
               /\ state'.consecutive_losses = 0
               /\ Len(learning_data'.adaptation_history)
                    = Len(learning_data.adaptation_history) + 1
               /\ \E i \in DOMAIN Last(learning_data'.adaptation_history).changes :
                     Last(learning_data'.adaptation_history).changes[i]
                        = "widened_stop_loss"
      ]_vars

RiskQueries ==
    {"can_open_position", "assess_token_risk", "calculate_position_size",
     "calculate_stop_loss"}

\* C13: every call to can_open_position, assess_token_risk,
\* calculate_position_size and calculate_stop_loss returns a value (for
\* can_open_position an allowed / refused result) instead of raising.
C13_RiskCallsReturn == last.op \in RiskQueries => last.outcome # "raised"

\* C14: every wallet balance (USDC cash, the gas-paying ETH, every token
\* quantity) is >= 0 after any sequence of buys, sells, swaps and wraps.
C14_BalancesNonNegative == \A t \in Tokens : balances[t] >= 0

\* C15: the background thread's check_positions and a request handler's
\* execute_buy / execute_sell / reset are never inside the same PaperTrader at
\* once; no position is sold twice (no duplicate trade record) and no token
\* balance is negative.
C15_HandlersNeverInterleave ==
    /\ ~(dash_request # IdleRequest /\ dash_background # IdleBackground)
    /\ \A i, j \in DOMAIN trade_history :
          i # j => trade_history[i] # trade_history[j]
    /\ \A t \in Tokens : balances[t] >= 0

\* C16: an execute_buy or execute_sell that does not succeed returns a refusal
\* (success = False) instead of raising, and leaves wallet balances, positions
\* and trade history exactly as they were.
C16_FailedOrdersLeaveNoTrace ==
    [][(steps' = steps + 1 /\ last'.op \in {"execute_buy", "execute_sell"}
            /\ last'.outcome # "ok")
          => /\ last'.outcome \in {"refused", "failed"}
             /\ UNCHANGED ledgerVars
      ]_vars

\* C18: when the price feed fails on a run, a script that has a prior sample
\* goes on with exactly the last known price, and a script that has none
\* skips the run and changes neither its ledger nor its price history.
C18_FeedFailureReusesLastPrice ==
    [][(ticks' = ticks + 1 /\ ~feed'.up)
          => /\ feed'.source = "matic" =>
                  IF state.hourly_prices # <<>>
                  THEN /\ state'.last_price = Last(state.hourly_prices)
                       /\ state'.hourly_prices =
                            AppendCapped(state.hourly_prices,
                                         Last(state.hourly_prices))
                  ELSE UNCHANGED <<state, learning_data>>
             /\ feed'.source = "btc" =>
                  IF ab_state.price_history # <<>>
                  THEN /\ ab_state'.btc_price = Last(ab_state.price_history)
                       /\ ab_state'.price_history =
                            AppendCapped(ab_state.price_history,
                                         Last(ab_state.price_history))
                  ELSE UNCHANGED ab_state
      ]_vars

RegimeFeed == {480, 500, 510, 520}

RECURSIVE ReportRuns(_, _, _)

\* the persisted state after report-mode runs on prices[i..]
ReportRuns(S, prices, i) ==
    IF i > Len(prices) THEN S
    ELSE ReportRuns(RecordPrice(S, prices[i]), prices, i + 1)

\* the histories nine earlier report-mode runs can have left
RegimeHistories == [1..9 -> {500, 510}]

InitRegime ==
    /\ InitTrader
    /\ InitDashboard
    /\ InitStrategies
    /\ \E h \in RegimeHistories : state = ReportRuns(DefaultState, h, 1)
    /\ learning_data = DefaultLearningData
    /\ ab_state = ResetAccounts
    /\ ticks = 0
    /\ feed = Fetched("none", TRUE, NoValue)
    /\ regime_call = NoRegimeCall
    /\ calendar = FirstDay

NextRegime == \E p \in RegimeFeed : AutoReport(p)

SpecRegime == InitRegime /\ [][NextRegime]_vars

\* the mean of the absolute step-to-step percent changes of a window
MeanAbsStepPercent(recent) ==
    RDiv(RMul(StepVolatility(recent, Len(recent)), RInt(100)),
         RInt(Len(recent) - 1))

\* the regime by the stated rule
RegimeByRule(price_history) ==
    IF Len(price_history) < 12 THEN "unknown"
    ELSE
      LET recent == SubSeq(price_history, Len(price_history) - 11,
                           Len(price_history))
          change == Norm((recent[12] - recent[1]) * 100, recent[1])
          volatility == MeanAbsStepPercent(recent)
      IN IF RLess(RInt(3), change) /\ RLess(volatility, RInt(2))
         THEN "trending_up"
         ELSE IF RLess(change, RInt(-3)) /\ RLess(volatility, RInt(2))
         THEN "trending_down"
         ELSE "choppy"

\* C20: detect_market_regime returns unknown below 12 samples, and otherwise
\* classifies the last 12 samples by the percent change from first to last
\* and the mean of the absolute step-to-step percent changes: trending_up iff
\* change > 3 and volatility < 2, trending_down iff change < -3 and
\* volatility < 2, choppy otherwise.
C20_RegimeFollowsRule ==
    DetectMarketRegime(state.hourly_prices) = RegimeByRule(state.hourly_prices)

(***************************************************************************)
(* detect_market_regime called on the recorded history (as adapt_strategy, *)
(* adaptive_strategy and generate_report call it), as a step of its own.    *)
(***************************************************************************)
\* the samples a call can look at: the last twelve, or all when fewer
LastTwelve(h) == IF Len(h) <= 12 THEN h ELSE SubSeq(h, Len(h) - 11, Len(h))

\* detect_market_regime(state['hourly_prices'])
DetectMarketRegimeCall ==
    /\ regime_call' = [window |-> LastTwelve(state.hourly_prices),
                       regime |-> DetectMarketRegime(state.hourly_prices)]
    /\ UNCHANGED <<state, learning_data, ab_state, ticks, feed, traderVars,
                   dashVars, strategyVars, clockVars>>

\* nine recorded samples, the first six at 0.50
CalmHistories == {h \in RegimeHistories : \A i \in 1..6 : h[i] = 500}

InitRegimeCalls ==
    /\ InitTrader
    /\ InitDashboard
    /\ InitStrategies
    /\ \E h \in CalmHistories : state = ReportRuns(DefaultState, h, 1)
    /\ learning_data = DefaultLearningData
    /\ ab_state = ResetAccounts
    /\ ticks = 0
    /\ feed = Fetched("none", TRUE, NoValue)
    /\ regime_call = NoRegimeCall
    /\ calendar = FirstDay

NextRegimeCalls ==
    \/ \E p \in RegimeFeed : AutoReport(p)
    \/ DetectMarketRegimeCall

SpecRegimeCalls == InitRegimeCalls /\ [][NextRegimeCalls]_vars

StrategyCount == 5

\* signals a strategy can return: hold at 0 (insufficient data) or 0.5
\* (grid), buy and sell at 0.3 and 0.7
SignalKinds ==
    {[action |-> "hold", confidence |-> 0], [action |-> "hold", confidence |-> 50],
     [action |-> "buy", confidence |-> 30], [action |-> "buy", confidence |-> 70],
     [action |-> "sell", confidence |-> 30], [action |-> "sell", confidence |-> 70]}

\* what analyze(token) can return
SignalLists == UNION {[1..n -> SignalKinds] : n \in 0..StrategyCount}

\* sum(1 for s in signals if s.action == action)
CountOf(signals, action) ==
    Cardinality({i \in DOMAIN signals : signals[i].action = action})

RECURSIVE TotalConfidence(_, _)

\* sum(s.confidence for s in signals[1..n])
TotalConfidence(signals, n) ==
    IF n = 0 THEN 0 ELSE TotalConfidence(signals, n - 1) + signals[n].confidence

\* get_consensus_signal(token), given the signals analyze(token) returned.
\* The metadata of the returned signal calls s.to_dict() on every signal, and
\* TradeSignal has no such method: with any signal at all the call raises
\* AttributeError after it has decided the action and the confidence.
GetConsensusSignal(signals) ==
    IF signals = <<>>
    THEN [raised |-> FALSE, action |-> "hold", confidence |-> RZero]
    ELSE
      LET buy_count == CountOf(signals, "buy")
          sell_count == CountOf(signals, "sell")
          avg_confidence == Norm(TotalConfidence(signals, Len(signals)),
                                 Len(signals))
      IN [raised |-> TRUE,
          action |-> IF buy_count > sell_count THEN "buy"
                     ELSE IF sell_count > buy_count THEN "sell" ELSE "hold",
          confidence |-> avg_confidence]

\* StrategyManager.get_consensus_signal(token)
GetConsensusSignalCall ==
    /\ ~consensus.called
    /\ LET r == GetConsensusSignal(consensus.signals)
       IN consensus' = [consensus EXCEPT !.called = TRUE, !.raised = r.raised,
                                         !.action = r.action,
                                         !.confidence = r.confidence]
    /\ UNCHANGED <<traderVars, scriptVars, dashVars, clockVars, mean_reversion,
                   grid>>

\* the strategies have produced their signals for the token
InitConsensus ==
    /\ InitTrader
    /\ InitFreshScripts
    /\ InitDashboard
    /\ \E signals \in SignalLists :
          consensus = [NoConsensus EXCEPT !.signals = signals]
    /\ mean_reversion = NoAnalysis
    /\ grid = NewGrid(DefaultGridConfig)

NextConsensus == GetConsensusSignalCall

SpecConsensus == InitConsensus /\ [][NextConsensus]_vars

\* the action with strictly the most votes among buy, sell and hold, and hold
\* when no action has strictly the most
MajorityAction(signals) ==
    LET votes == [a \in {"buy", "sell", "hold"} |-> CountOf(signals, a)]
    IN IF \E a \in DOMAIN votes :
            \A b \in DOMAIN votes \ {a} : votes[a] > votes[b]
       THEN CHOOSE a \in DOMAIN votes :
                \A b \in DOMAIN votes \ {a} : votes[a] > votes[b]
       ELSE "hold"

\* C22: the consensus action is the one with the most votes among buy, sell
\* and hold over all signals, hold on any tie, and the consensus confidence
\* is the mean of all the signals' confidences.
C22_ConsensusIsMajority ==
    consensus.called =>
        /\ ~consensus.raised
        /\ consensus.action = MajorityAction(consensus.signals)
        /\ consensus.signals # <<>> =>
               consensus.confidence =
                   Norm(TotalConfidence(consensus.signals,
                                        Len(consensus.signals)),
                        Len(consensus.signals))

\* C24: a PaperTrader trade leaves the portfolio value the risk manager checks
\* its size and daily-loss limits against equal to the ledger's total value:
\* when the two agree before an execute_buy, execute_sell or execute_swap,
\* they agree after it.
C24_RiskValueFollowsLedger ==
    [][(/\ steps' = steps + 1
        /\ last'.op \in {"execute_buy", "execute_sell", "execute_swap"}
        /\ current_portfolio_value = TotalUsd(balances))
          => current_portfolio_value' = TotalUsd(balances')
      ]_vars

\* C26: for every entry price above 0 and every confidence, calculate_stop_loss
\* produces a stop price for a long position that lies at most 20% of the
\* entry price below the entry price.
C26_StopWithinTwentyPercent ==
    (last.op = "calculate_stop_loss" /\ last.amount > 0)
        => /\ last.outcome = "ok"
           /\ \A stop_price \in last.closed :
                  (last.amount - stop_price) * 100 <= MaxStopPercent * last.amount

(***************************************************************************)
(* The two scripts on price histories at their capacity: the persisted     *)
(* histories are those that report-mode runs leave behind.                 *)
(***************************************************************************)
\* the prices of n runs of the MATIC script, in 1/1000 USD
MaticSamples(n) == [i \in 1..n |-> <<500, 480, 450>>[((i - 1) % 3) + 1]]

\* the prices of n runs of the BTC script, in USD
BtcSamples(n) == [i \in 1..n |-> <<68700, 70000, 72000>>[((i - 1) % 3) + 1]]

RECURSIVE ReportSpan(_, _, _, _)

\* the persisted MATIC state after report-mode runs on prices[lo..hi], the
\* runs of the first half before those of the second
ReportSpan(S, prices, lo, hi) ==
    IF lo > hi THEN S
    ELSE IF lo = hi THEN RecordPrice(S, prices[lo])
    ELSE CHOOSE after \in
           {ReportSpan(half, prices, ((lo + hi) \div 2) + 1, hi) :
              half \in {ReportSpan(S, prices, lo, (lo + hi) \div 2)}} : TRUE

RECURSIVE AbReportSpan(_, _, _, _)

\* the same for the persisted A/B state
AbReportSpan(T, prices, lo, hi) ==
    IF lo > hi THEN T
    ELSE IF lo = hi THEN AbRecordPrice(T, prices[lo])
    ELSE CHOOSE after \in
           {AbReportSpan(half, prices, ((lo + hi) \div 2) + 1, hi) :
              half \in {AbReportSpan(T, prices, lo, (lo + hi) \div 2)}} : TRUE

\* the numbers of samples held at the start: one below the capacity, and the
\* capacity
FullLengths == {HistoryCap - 1, HistoryCap}

HistoryMaticFeed == {480, 500}

HistoryBtcFeed == {68700, 70000}

InitHistory ==
    /\ InitTrader
    /\ InitDashboard
    /\ InitStrategies
    /\ \E n \in FullLengths :
          state = ReportSpan(DefaultState, MaticSamples(n), 1, n)
    /\ learning_data = DefaultLearningData
    /\ \E n \in FullLengths :
          ab_state = AbReportSpan(ResetAccounts, BtcSamples(n), 1,
                                  n - Len(ResetAccounts.price_history))
    /\ ticks = 0
    /\ feed = Fetched("none", TRUE, NoValue)
    /\ regime_call = NoRegimeCall
    /\ calendar = FirstDay

NextHistory ==
    \/ \E p \in HistoryMaticFeed : AutoTick(p)
    \/ \E p \in HistoryMaticFeed : AutoReport(p)
    \/ \E p \in HistoryBtcFeed : AbTick(p)
    \/ \E p \in HistoryBtcFeed : AbReport(p)

SpecHistory == InitHistory /\ [][NextHistory]_vars

(***************************************************************************)
(* strategies.py: MeanReversionStrategy.analyze.  The prices are those     *)
(* market_data.get_recent_prices returned, in USD.  The deviation          *)
(* (current - mean) / std is kept exactly, as its sign and its square, and *)
(* a confidence as its square, so that no root is taken.                   *)
(***************************************************************************)
\* len(prices) < 24: insufficient data
MinPrices == 24

\* strategy_config.get("std_threshold", 2.0), squared
StdThresholdSq == RInt(4)

\* the soft band 0.5, squared
SoftBandSq == <<1, 4>>

\* the fixed confidence 0.3, squared
SoftConfidenceSq == <<9, 100>>

RECURSIVE SumTo(_, _)

\* prices[1] + ... + prices[i]
SumTo(prices, i) == IF i = 0 THEN 0 ELSE SumTo(prices, i - 1) + prices[i]

RECURSIVE SumSqTo(_, _)

SumSqTo(prices, i) ==
    IF i = 0 THEN 0 ELSE SumSqTo(prices, i - 1) + prices[i] * prices[i]

\* deviation = (current_price - np.mean(prices)) / np.std(prices), with
\* n * current - sum over sqrt(n * sum of squares - sum^2).  A zero std
\* makes the quotient nan (inf is not reached: the numerator is then 0).
Deviation(prices) ==
    CHOOSE d \in
      UNION {UNION {{[nan |-> n * q - s * s = 0,
                      sign |-> IF n * Last(prices) > s THEN 1
                               ELSE IF n * Last(prices) < s THEN -1 ELSE 0,
                      square |-> IF n * q - s * s = 0 THEN RZero
                                 ELSE Norm((n * Last(prices) - s)
                                             * (n * Last(prices) - s),
                                           n * q - s * s)] :
                       q \in {SumSqTo(prices, n)}} :
                    s \in {SumTo(prices, n)}} :
             n \in {Len(prices)}} : TRUE

\* deviation < -sqrt(k_sq); every comparison with nan is False
DevBelow(d, k_sq) == ~d.nan /\ d.sign < 0 /\ RLess(k_sq, d.square)

\* deviation > sqrt(k_sq)
DevAbove(d, k_sq) == ~d.nan /\ d.sign > 0 /\ RLess(k_sq, d.square)

\* deviation > -sqrt(k_sq)
DevAboveMinus(d, k_sq) == ~d.nan /\ (d.sign >= 0 \/ RLess(d.square, k_sq))

\* deviation < sqrt(k_sq)
DevBelowPlus(d, k_sq) == ~d.nan /\ (d.sign <= 0 \/ RLess(d.square, k_sq))

\* min(1.0, abs(deviation) / 3), squared
ScaledConfidenceSq(d) == RMin(RInt(1), RDiv(d.square, RInt(9)))

\* MeanReversionStrategy.analyze(token), given the recent prices
MeanReversionAnalyze(prices) ==
    IF Len(prices) < MinPrices
    THEN [action |-> "hold", confidence |-> RZero,
          reason |-> "insufficient_data"]
    ELSE
      CHOOSE sig \in
        {IF DevBelow(d, StdThresholdSq)
         THEN [action |-> "buy", confidence |-> ScaledConfidenceSq(d),
               reason |-> "deviation"]
         ELSE IF DevAbove(d, StdThresholdSq)
         THEN [action |-> "sell", confidence |-> ScaledConfidenceSq(d),
               reason |-> "deviation"]
         ELSE IF DevBelow(d, SoftBandSq) /\ DevAboveMinus(d, StdThresholdSq)
         THEN [action |-> "buy", confidence |-> SoftConfidenceSq,
               reason |-> "deviation"]
         ELSE IF DevAbove(d, SoftBandSq) /\ DevBelowPlus(d, StdThresholdSq)
         THEN [action |-> "sell", confidence |-> SoftConfidenceSq,
               reason |-> "deviation"]
         ELSE [action |-> "hold", confidence |-> RZero,
               reason |-> "deviation"] :
           d \in {Deviation(prices)}} : TRUE

\* MeanReversionStrategy.analyze(token)
MeanReversionAnalyzeCall ==
    /\ ~mean_reversion.called
    /\ mean_reversion' =
          [mean_reversion EXCEPT
             !.called = TRUE,
             !.signal = MeanReversionAnalyze(mean_reversion.prices)]
    /\ UNCHANGED <<traderVars, scriptVars, dashVars, clockVars, consensus, grid>>

\* a price around which the recent prices lie, USD
SeriesBase == 100

\* recent prices: near pairs at base +-10, far pairs at base +-15, some at
\* the base, and the current price last
Series(near, far, flat, move) ==
    [i \in 1..near |-> SeriesBase + 10] \o [i \in 1..near |-> SeriesBase - 10]
      \o [i \in 1..far |-> SeriesBase + 15] \o [i \in 1..far |-> SeriesBase - 15]
      \o [i \in 1..flat |-> SeriesBase] \o <<SeriesBase + move>>

\* moves of the current price away from the base
SeriesMoves == {-60, -30, -25, -20, -10, -5, 0, 5, 10, 20, 25, 30, 60}

\* the price lists analyze is given: 21 to 27 prices, and 24 equal ones
PriceSeries ==
    {Series(near, far, flat, move) :
       near \in {5, 6}, far \in {3, 4}, flat \in {4, 6}, move \in SeriesMoves}
    \cup {Series(0, 0, MinPrices - 1, 0)}

InitMeanReversion ==
    /\ InitTrader
    /\ InitFreshScripts
    /\ InitDashboard
    /\ consensus = NoConsensus
    /\ grid = NewGrid(DefaultGridConfig)
    /\ \E prices \in PriceSeries :
          mean_reversion = [NoAnalysis EXCEPT !.prices = prices]

NextMeanReversion == MeanReversionAnalyzeCall

SpecMeanReversion == InitMeanReversion /\ [][NextMeanReversion]_vars

(***************************************************************************)
(* strategies.py: GridTradingStrategy.  The current price is the one       *)
(* market_data.get_current_price gives, in cents; a grid level is kept in  *)
(* 1/100 cent, so that price * (1 + i * spacing / 100) is an integer.      *)
(***************************************************************************)
\* a price in the unit of the grid levels
InLevelUnits(p) == p * 100

\* setup_grid(token, price): the levels for
\* i in range(-num_levels // 2, num_levels // 2 + 1)
SetupGrid(config, p) ==
    [k \in 1..((config.grid_levels \div 2 + 1)
                 - ((0 - config.grid_levels) \div 2)) |->
       p * (100 + (((0 - config.grid_levels) \div 2) + k - 1)
                    * config.grid_spacing_percent)]

\* max(buy_levels): the highest level below the current price, NoValue when
\* there is none
NearestBuy(levels, cur) ==
    IF \A i \in DOMAIN levels : levels[i] >= cur THEN NoValue
    ELSE CHOOSE l \in {levels[i] : i \in DOMAIN levels} :
           l < cur /\ \A i \in DOMAIN levels : levels[i] < cur => levels[i] <= l

\* min(sell_levels): the lowest level above the current price
NearestSell(levels, cur) ==
    IF \A i \in DOMAIN levels : levels[i] <= cur THEN NoValue
    ELSE CHOOSE l \in {levels[i] : i \in DOMAIN levels} :
           l > cur /\ \A i \in DOMAIN levels : levels[i] > cur => l <= levels[i]

\* distance < 0.02, for a distance gap / current_price
IsClose(gap, cur) == gap * 50 < cur

\* the signal part of GridTradingStrategy.analyze; confidences in percent
GridSignal(levels, cur) ==
    LET nearest_buy == NearestBuy(levels, cur)
        nearest_sell == NearestSell(levels, cur)
        buy == nearest_buy # NoValue /\ IsClose(cur - nearest_buy, cur)
        sell == nearest_sell # NoValue /\ IsClose(nearest_sell - cur, cur)
    IN IF buy /\ sell THEN [action |-> "hold", confidence |-> 70,
                            reason |-> "grid"]
       ELSE IF buy THEN [action |-> "buy", confidence |-> 70, reason |-> "grid"]
       ELSE IF sell THEN [action |-> "sell", confidence |-> 70,
                          reason |-> "grid"]
       ELSE [action |-> "hold", confidence |-> 50, reason |-> "grid"]

\* the grid_levels dict after "if token not in self.grid_levels: setup_grid"
GridFor(G, token, p) ==
    IF token \in DOMAIN G.grid_levels THEN G.grid_levels
    ELSE MapPut(G.grid_levels, token, SetupGrid(G.config, p))

\* GridTradingStrategy.analyze(token)
GridAnalyzeCall(token) ==
    /\ grid' = [grid EXCEPT
                  !.grid_levels = GridFor(grid, token, GetCurrentPrice(token)),
                  !.token = token,
                  !.signal = GridSignal(
                      GridFor(grid, token, GetCurrentPrice(token))[token],
                      InLevelUnits(GetCurrentPrice(token)))]
    /\ UNCHANGED <<traderVars, scriptVars, dashVars, clockVars, consensus,
                   mean_reversion>>

\* grid configurations: the one of config.py and three others
GridConfigs ==
    {[grid_levels |-> n, grid_spacing_percent |-> s] :
       n \in {4, GridLevels}, s \in {GridSpacingPercent, 2}}

\* prices the MATIC feed moves to, cents
GridPrices == {48, 49, 50, 51, 52}

InitGrid ==
    /\ InitTrader
    /\ InitFreshScripts
    /\ InitDashboard
    /\ consensus = NoConsensus
    /\ mean_reversion = NoAnalysis
    /\ \E config \in GridConfigs : grid = NewGrid(config)

NextGrid ==
    \/ \E token \in TradeTokens : GridAnalyzeCall(token)
    \/ \E p \in GridPrices : MarketUpdate(p)

SpecGrid == InitGrid /\ [][NextGrid]_vars

(***************************************************************************)
(* The scripts are started by a scheduler every few minutes, so their runs *)
(* spread over days: between two runs the date may change.  main() of      *)
(* either script loads the saved state, trades and saves; it reads the     *)
(* date for the timestamps of its records only.                            *)
(***************************************************************************)
\* days followed
MaxDays == 1

\* the date changes between two runs
Midnight ==
    /\ calendar.today < MaxDays
    /\ calendar' = [calendar EXCEPT !.today = @ + 1]
    /\ UNCHANGED <<traderVars, scriptVars, dashVars, strategyVars>>

NextDays ==
    \/ \E p \in MaticFeed : AutoTick(p)
    \/ \E p \in BtcFeed : AbTick(p)
    \/ Midnight

SpecDays == Init /\ [][NextDays]_vars

(***************************************************************************)
(* Claims about the adaptive tuner                                          *)
(***************************************************************************)
\* the step is a trading cycle of auto_paper_trader.py on the fetched price
IsTradingCycle ==
    /\ feed'.source = "matic"
    /\ feed'.up
    /\ AutoTick(feed'.price)

\* C27: in a trading cycle momentum_threshold changes only when the momentum
\* strategy has at least 5 recorded outcomes; with a win rate below 0.4 it
\* rises by 0.5 but not above 5.0, with a win rate above 0.6 it falls by 0.3
\* but not below 1.0, with a win rate in [0.4, 0.6] it is unchanged; no run
\* changes it otherwise, and it stays within [1.0, 5.0].
C27_MomentumThresholdRule ==
    [][LET old == learning_data.optimal_params.momentum_threshold
           new == learning_data'.optimal_params.momentum_threshold
           perf == learning_data.strategy_performance["momentum"]
           outcomes == perf.wins + perf.losses
           below == perf.wins * 10 < 4 * outcomes
           above == perf.wins * 10 > 6 * outcomes
       IN /\ new # old => IsTradingCycle /\ outcomes >= 5
          /\ (IsTradingCycle /\ outcomes >= 5 /\ below)
                => new = (IF old + 5 > 50 THEN 50 ELSE old + 5)
          /\ (IsTradingCycle /\ outcomes >= 5 /\ above)
                => new = (IF old - 3 < 10 THEN 10 ELSE old - 3)
          /\ (outcomes >= 5 /\ ~below /\ ~above) => new = old
          /\ 10 <= new /\ new <= 50
      ]_vars

\* the threshold was raised in two trading cycles and stands at the cap
C27_Witness ==
    LET log == learning_data.adaptation_history
        n == Len(log)
    IN /\ ticks >= 2
       /\ n >= 2
       /\ learning_data.optimal_params.momentum_threshold = 50
       /\ \A i \in {n - 1, n} :
             /\ log[i].changes[1] = "raised_momentum_threshold"
             /\ log[i].new_params.momentum_threshold = 50

\* analyze_losing_trades: state['trades'][-20:]
TradeWindow == 20

\* the outcomes of a strategy among the most recent TradeWindow trade records:
\* a SELL record carries the outcome, the record before it the strategy
WindowPerformance(trades, strategy) ==
    LET n == Len(trades)
        first == IF n > TradeWindow THEN n - TradeWindow + 1 ELSE 1
        closes == {i \in first..n :
                     /\ i > 1
                     /\ trades[i].type = "SELL"
                     /\ trades[i - 1].type = "BUY"
                     /\ trades[i - 1].strategy = strategy}
        won == {i \in closes : RLess(RZero, trades[i].pnl)}
    IN [wins |-> Cardinality(won), losses |-> Cardinality(closes \ won)]

\* C28: the win rate by which a trading cycle adjusts momentum_threshold is
\* the one of the most recent 20 trade records; older outcomes have no
\* influence on the adjustment.
C28_TunerUsesTrailingWindow ==
    [][IsTradingCycle =>
         LET old == learning_data.optimal_params.momentum_threshold
             new == learning_data'.optimal_params.momentum_threshold
             perf == WindowPerformance(state.trades, "momentum")
             outcomes == perf.wins + perf.losses
         IN new = IF outcomes >= 5 /\ perf.wins * 10 < 4 * outcomes
                  THEN (IF old + 5 > 50 THEN 50 ELSE old + 5)
                  ELSE IF outcomes >= 5 /\ perf.wins * 10 > 6 * outcomes
                  THEN (IF old - 3 < 10 THEN 10 ELSE old - 3)
                  ELSE old
      ]_vars

\* C29: in a trading cycle the tuner runs after the order execution, so the
\* entry / exit decision of the cycle is the one the parameters of before the
\* cycle give; a parameter change of the cycle shows in the next cycle only.
C29_TunerRunsAfterExecution ==
    [][IsTradingCycle =>
         LET p == feed'.price
             recorded == RecordPrice(state, p)
             decision == AdaptiveStrategy(recorded, p, learning_data)
             executed == IF decision.signal # "NONE"
                         THEN ExecuteTrade(recorded, decision.signal, p,
                                           decision.reason, learning_data).state
                         ELSE recorded
         IN /\ state'.position = executed.position
            /\ Len(state'.trades) = Len(executed.trades)
      ]_vars

\* C30: the adaptation log only grows, by at most one entry per run of
\* adapt_strategy and only in a trading cycle; an entry once written, and the
\* parameter snapshot it reads as, never changes; and the outcome of a trading
\* cycle does not depend on the log.
C30_AdaptationLogAppendOnly ==
    [][LET log == learning_data.adaptation_history
           after == learning_data'.adaptation_history
       IN /\ Len(after) \in {Len(log), Len(log) + 1}
          /\ Len(after) > Len(log) => IsTradingCycle
          /\ \A i \in 1..Len(log) :
                /\ after[i] = log[i]
                /\ SnapshotIn(after[i], learning_data')
                     = SnapshotIn(log[i], learning_data)
          /\ IsTradingCycle =>
                LET blank == [learning_data EXCEPT !.adaptation_history = <<>>]
                    T == TradingCycle(state, blank, feed'.price)
                IN /\ state' = T.state
                   /\ learning_data'.optimal_params = T.learning_data.optimal_params
                   /\ learning_data'.strategy_performance
                        = T.learning_data.strategy_performance
      ]_vars

\* two trading cycles have each appended an entry, with different snapshots,
\* the later one being the parameters in force
C30_Witness ==
    LET log == learning_data.adaptation_history
        n == Len(log)
    IN /\ ticks >= 2
       /\ n >= 2
       /\ SnapshotIn(log[n], learning_data) = learning_data.optimal_params
       /\ SnapshotIn(log[n - 1], learning_data) # learning_data.optimal_params

\* C31: a trading cycle whose adapt_strategy run leaves every parameter at the
\* value it had before the run appends no entry to the adaptation log.
C31_StableParametersAddNoEntry ==
    [][(IsTradingCycle
          /\ learning_data'.optimal_params = learning_data.optimal_params)
         => Len(learning_data'.adaptation_history)
              = Len(learning_data.adaptation_history)
      ]_vars

\* C32: in a trading cycle in which the regime is trending_up and take_profit
\* stands at 7%, a long position whose gain at the cycle's price is above 3%
\* and below 7% is held, not sold.
C32_WidenedTakeProfitHoldsWinners ==
    [][LET p == feed'.price
           entry == state.entry_price
       IN (/\ IsTradingCycle
           /\ state.position = "LONG"
           /\ DetectMarketRegime(RecordPrice(state, p).hourly_prices) = "trending_up"
           /\ learning_data'.optimal_params.take_profit = 70
           /\ (p - entry) * 100 > 3 * entry
           /\ (p - entry) * 100 < 7 * entry)
            => /\ state'.position = "LONG"
               /\ state'.trades = state.trades
      ]_vars

\* C33: assess_token_risk yields a score in [0, 100] and the level that goes
\* with it: high from 60, medium from 30, low below.
C33_RiskAssessmentYieldsLevel ==
    last.op = "assess_token_risk"
        => /\ last.outcome = "ok"
           /\ \E score \in 0..100 : last.reason = RiskLevelOf(score)

\* C34: the size calculate_position_size returns for the current portfolio is
\* at most max_position_percent of the portfolio value, the bound of
\* can_open_position's size check.
C34_RecommendedSizeWithinLimit ==
    last.op = "calculate_position_size"
        => /\ last.outcome = "ok"
           /\ \A position_size \in last.closed :
                  position_size * 100
                      <= MaxPositionPercent * current_portfolio_value

\* the history after one more sample under the capacity rule of the claim
FifoAppend(history, p) ==
    (IF Len(history) = HistoryCap THEN Tail(history) ELSE history) \o <<p>>

\* C35: after every run the price history of either script holds at most 288
\* samples in arrival order, the newest last; a run on a history of 288
\* samples drops exactly the oldest one and keeps the order of the rest.
C35_HistoryIsFifo ==
    [][LET ran == ticks' = ticks + 1 /\ feed'.up
       IN /\ Len(state'.hourly_prices) <= HistoryCap
          /\ Len(ab_state'.price_history) <= HistoryCap
          /\ state'.hourly_prices =
                IF ran /\ feed'.source = "matic"
                THEN FifoAppend(state.hourly_prices, feed'.price)
                ELSE state.hourly_prices
          /\ ab_state'.price_history =
                IF ran /\ feed'.source = "btc"
                THEN FifoAppend(ab_state.price_history, feed'.price)
                ELSE ab_state.price_history
      ]_vars

\* both histories are full, each has dropped its oldest sample and ends with
\* a sample a run recorded
C35_Witness ==
    /\ Len(state.hourly_prices) = HistoryCap
    /\ state.hourly_prices[1] = MaticSamples(2)[2]
    /\ state.hourly_prices[HistoryCap] = state.last_price
    /\ Len(ab_state.price_history) = HistoryCap
    /\ ab_state.price_history[Len(ResetAccounts.price_history) + 1]
          = BtcSamples(2)[2]
    /\ ab_state.price_history[HistoryCap] = ab_state.btc_price
    /\ ticks >= 3

\* the records of a trade log alternate, BUY first
Alternates(trades) ==
    \A i \in 1..Len(trades) :
        trades[i].type = IF i % 2 = 1 THEN "BUY" ELSE "SELL"

\* C36: in every state of the script ledgers (the MATIC ledger and the two
\* A/B accounts) position is LONG exactly when the asset balance is above 0,
\* with an entry price recorded, and None exactly when it is 0; and the BUY
\* and SELL records of the trade log alternate, starting with a BUY.
C36_PositionMatchesBalance ==
    /\ state.position = "LONG" <=> RLess(RZero, state.balance_matic)
    /\ state.position = "NONE" <=> state.balance_matic = RZero
    /\ state.position = "LONG" => state.entry_price # NoValue
    /\ Alternates(state.trades)
    /\ \A account \in {ab_state.account_a, ab_state.account_b} :
          /\ account.position = "LONG" <=> RLess(RZero, account.balance_btc)
          /\ account.position = "NONE" <=> account.balance_btc = RZero
          /\ account.position = "LONG" => account.entry_price # NoValue
          /\ Alternates(account.trades)

\* the ledger's daily P&L after a run, given what the run realized: the run's
\* own P&L when it is the first run of its day, added to the day's otherwise
DailyPnlAfter(before, after, first_of_day) ==
    IF first_of_day THEN after.daily_pnl = RSub(after.total_pnl, before.total_pnl)
    ELSE RSub(after.daily_pnl, before.daily_pnl)
           = RSub(after.total_pnl, before.total_pnl)

\* C37: daily_pnl is the sum of the realized P&L of the closes made on the
\* current day: a run that is the first of its day leaves it at what that run
\* realized, and a later run of the day adds what it realized; the daily trade
\* count restarts in the same way.
C37_DailyPnlResetsAtDayBoundary ==
    [][/\ (ticks' = ticks + 1 /\ feed'.source = "matic" /\ feed'.up)
          => /\ DailyPnlAfter(state, state', calendar.matic < calendar.today)
             /\ calendar.matic < calendar.today => state'.trades_today <= 1
       /\ (ticks' = ticks + 1 /\ feed'.source = "btc")
          => /\ DailyPnlAfter(ab_state.account_a, ab_state'.account_a,
                              calendar.btc < calendar.today)
             /\ DailyPnlAfter(ab_state.account_b, ab_state'.account_b,
                              calendar.btc < calendar.today)
             /\ calendar.btc < calendar.today
                  => /\ ab_state'.account_a.trades_today <= 1
                     /\ ab_state'.account_b.trades_today <= 1
      ]_vars

\* deviation <= -sqrt(k_sq)
DevAtOrBelow(d, k_sq) == d.sign < 0 /\ RLeq(k_sq, d.square)

\* deviation >= sqrt(k_sq)
DevAtOrAbove(d, k_sq) == d.sign > 0 /\ RLeq(k_sq, d.square)

\* C39: with enough prices and a deviation d = (price - mean)/std, the
\* mean-reversion signal is buy with confidence min(1, |d|/3) when d <= -2,
\* sell with confidence min(1, d/3) when d >= 2, buy (sell) with confidence
\* 0.3 when d is beyond -0.5 (+0.5) but inside the hard threshold, and hold
\* otherwise: a deviation exactly at the hard threshold buys or sells.
C39_MeanReversionMapping ==
    (mean_reversion.called /\ Len(mean_reversion.prices) >= MinPrices
       /\ ~Deviation(mean_reversion.prices).nan)
      => LET d == Deviation(mean_reversion.prices)
             sig == mean_reversion.signal
         IN IF DevAtOrBelow(d, StdThresholdSq)
            THEN sig.action = "buy" /\ sig.confidence = ScaledConfidenceSq(d)
            ELSE IF DevAtOrAbove(d, StdThresholdSq)
            THEN sig.action = "sell" /\ sig.confidence = ScaledConfidenceSq(d)
            ELSE IF DevBelow(d, SoftBandSq)
            THEN sig.action = "buy" /\ sig.confidence = SoftConfidenceSq
            ELSE IF DevAbove(d, SoftBandSq)
            THEN sig.action = "sell" /\ sig.confidence = SoftConfidenceSq
            ELSE sig.action = "hold"

\* the levels lie symmetrically around the centre: each has its mirror image
IsSymmetricAround(levels, centre) ==
    \A i \in DOMAIN levels :
       \E j \in DOMAIN levels : levels[i] + levels[j] = 2 * centre

\* C38: the first analyze for a token builds a grid of exactly the configured
\* number of levels, placed symmetrically around the current price, and an
\* analyze for a token that has a grid leaves every grid as it is.
C38_GridBuiltOnceAndSymmetric ==
    [][/\ \A token \in DOMAIN grid.grid_levels :
             /\ token \in DOMAIN grid'.grid_levels
             /\ grid'.grid_levels[token] = grid.grid_levels[token]
       /\ \A token \in (DOMAIN grid'.grid_levels) \ (DOMAIN grid.grid_levels) :
             /\ Len(grid'.grid_levels[token]) = grid.config.grid_levels
             /\ IsSymmetricAround(grid'.grid_levels[token],
                                  InLevelUnits(GetCurrentPrice(token)))
      ]_vars

====
